---- MODULE Spec2Model ----
(***************************************************************************)
(* Telemetry bridge (src/backend/maindata.py): the rate-limited publisher, *)
(* the ingest path (journal, republish queue, DB buffer), the DB batch     *)
(* writer with its retry queue, and shutdown/cleanup.                      *)
(*                                                                         *)
(* Time is the monotonic clock in ticks of 1 ms.  Token counts are kept in *)
(* half tokens (ONE_TOKEN = 2 units), so that the fractional refill of the *)
(* bucket (500 tokens/s = 0.5 token per tick) is exact integer arithmetic. *)
(***************************************************************************)
EXTENDS Integers, Sequences, FiniteSets, TLC

VARIABLES
    now,              \* time.monotonic(), in ticks
    rate_limiter,     \* RateLimitedPublisher: tokens, last_refill, queue, stats
    drain,            \* position of a running drain_queue() call
    sink,             \* messages the dashboard channel accepted, in order
    sink_calls,       \* history: number of channel.publish attempts by the publisher
    tokens_consumed,  \* history: number of whole tokens taken from the bucket
    last,             \* history: what the most recent publisher call did
    next_msg,         \* next message id the caller of the publisher submits
    lim,              \* the bounds of the run: samples, clock ticks, writer seconds
    mock_mode,        \* TelemetryBridgeWithDB.mock_mode
    convex_client,    \* whether connect_convex() produced a client
    running,          \* self.running
    shutdown_event,   \* self.shutdown_event is set
    signalled,        \* the signal handler has run
    loop_owner,       \* the asyncio task that runs between two of its awaits
    main,             \* run()/cleanup(): position and the chunks still to submit
    src_open,         \* the source channel delivers messages (subscribed, not closed)
    csv,              \* the CSV export of cleanup: whether asked for, written, its rows
    handles,          \* which of dashboard client, database client, journal file are open
    next_sample,      \* id of the next sample the source delivers
    journal,          \* records in the NDJSON journal, in append order
    message_queue,    \* self.message_queue (republish queue)
    db_buffer,        \* self.db_buffer
    db_buffer_lock,   \* holder of self.db_buffer_lock, or "free"
    db_retry_queue,   \* self.db_retry_queue: list of batches
    db_retry_backoff, \* self.db_retry_backoff, seconds
    db_write_failures,\* self.db_write_failures
    database,         \* records the remote database stored
    stats,            \* self.stats counters
    ing,              \* the live-source callback: position and its sample
    mock_pc,          \* generate_mock_data_loop: position
    wr,               \* database_batch_writer: position and locals; history: when
                      \* it last saw a submission fail, and when the oldest batch
                      \* of the retry queue was last submitted
    rp,               \* republish_messages: position and the batch it publishes
    now_mono,         \* time.monotonic() as the DB writer reads it, seconds
    buffered,         \* history: samples appended to db_buffer, in order
    rejected,         \* history: for each message dropped as invalid, the number of
                      \* the sample the source sent next
    snapshots,        \* history: the non-empty buffer snapshots taken, in order
    esp32_health,     \* self.esp32_health (ConnectionHealth)
    dashboard_health, \* self.dashboard_health (ConnectionHealth)
    link,             \* per channel: the client's connection.state is "connected"
    reconnect_lock,   \* self._reconnect_lock: the channel whose reconnect holds it,
                      \* and when the delay of that reconnect is over
    hm,               \* health_monitor: position and when its sleep is over
    st_pc,            \* print_stats: position
    conn_log,         \* history of the reconnect calls, per channel
    window,           \* a RollingWindow of the outlier detector
    window_log,       \* history: pushes into window since its last reset, last value
    detector,         \* self.outlier_detector (OutlierDetector)
    detected,         \* history: each sample given to detect() with what it returned
    calculator,       \* self.telemetry_calculator (TelemetryCalculator)
    calc_log,         \* history: every peak calculate() detected, and its last result
    normalized,       \* history: what _normalize_telemetry_data made of each sample
    mock_generator,   \* self.mock_generator (MockDataGenerator) with its config
    gen_log,          \* history: generate() calls, and the drops of the latest burst
    ndjson,           \* the lines of a LocalJournal's file
    journal_log       \* history: the records given to append(), the file before the
                      \* latest append, the latest CSV export

pubvars == <<now, rate_limiter, drain, sink, sink_calls, tokens_consumed, last, next_msg>>

cfgvars == <<lim, mock_mode, convex_client>>

lifevars == <<running, shutdown_event, signalled, main, src_open, csv, handles>>

ingvars == <<next_sample, journal, message_queue, ing, mock_pc, rp, buffered,
            rejected>>

dbvars == <<db_buffer, db_buffer_lock, db_retry_queue, db_retry_backoff,
            db_write_failures, database, wr, now_mono, snapshots>>

connvars == <<esp32_health, dashboard_health, link, reconnect_lock, hm, st_pc,
             conn_log>>

\* the bridge proper
corevars == <<cfgvars, connvars, lifevars, ingvars, dbvars, loop_owner, stats>>

winvars == <<window, window_log>>

\* the modules embedded in the bridge: outlier detector, calculator, mock generator
detvars == <<detector, detected>>

calcvars == <<calculator, calc_log>>

genvars == <<mock_generator, gen_log>>

jrnvars == <<ndjson, journal_log>>

modvars == <<winvars, detvars, calcvars, normalized, genvars, jrnvars>>

brvars == <<corevars, modvars>>

vars == <<pubvars, brvars>>

----------------------------------------------------------------------------
(* Bounds of the model *)

\* the clock stops advancing here
MaxTime == 3
\* number of distinct messages handed to the publisher
MaxMsgs == 3

(* Program constants, in model units *)

\* the 1.0 of "_tokens >= 1.0" / "_tokens -= 1.0", in half tokens
ONE_TOKEN == 2
\* 500 tokens per second = 1 half token per 1 ms tick
PUBLISH_RATE_LIMIT == 1
\* bucket capacity in whole tokens (100 in the source, scaled down)
PUBLISH_BURST_CAPACITY == 2
\* capacity of the overflow queue (10000 in the source, scaled down)
PUBLISH_QUEUE_MAX_SIZE == 2
\* asyncio.sleep(drain_interval), 2 ms
PUBLISH_DRAIN_INTERVAL == 2

Min(a, b) == IF a <= b THEN a ELSE b

----------------------------------------------------------------------------
(* RateLimitedPublisher *)

RateLimitedPublisherInit(t) ==
    [ tokens      |-> PUBLISH_BURST_CAPACITY * ONE_TOKEN,
      last_refill |-> t,
      queue       |-> << >>,
      stats       |-> [ queue_depth        |-> 0,
                        burst_events       |-> 0,
                        messages_delayed   |-> 0,
                        messages_dropped   |-> 0,
                        messages_published |-> 0,
                        drain_cycles       |-> 0 ] ]

\* a refill that forgets the min(burst_capacity, ...)
refill_tokens_uncapped(p, t) ==
    [p EXCEPT !.tokens = p.tokens + (t - p.last_refill) * PUBLISH_RATE_LIMIT,
              !.last_refill = t]

\* _refill_tokens at time t
refill_tokens(p, t) ==
    [p EXCEPT !.tokens = Min(PUBLISH_BURST_CAPACITY * ONE_TOKEN,
                             p.tokens + (t - p.last_refill) * PUBLISH_RATE_LIMIT),
              !.last_refill = t]

\* a bucket that answers True without taking the token
try_consume_token_free(p, t) ==
    LET q == [p EXCEPT !.tokens = Min(PUBLISH_BURST_CAPACITY * ONE_TOKEN,
                                      p.tokens + (t - p.last_refill) * PUBLISH_RATE_LIMIT),
                       !.last_refill = t] IN
    [p |-> q, ok |-> q.tokens >= ONE_TOKEN]

\* _try_consume_token at time t: the publisher after the call, and the result
try_consume_token(p, t) ==
    LET q == refill_tokens(p, t) IN
    IF q.tokens >= ONE_TOKEN
        THEN [p |-> [q EXCEPT !.tokens = @ - ONE_TOKEN], ok |-> TRUE]
        ELSE [p |-> q, ok |-> FALSE]

\* a full queue that makes room by dropping its oldest message
queue_message_drop_oldest(p, m) ==
    IF Len(p.queue) < PUBLISH_QUEUE_MAX_SIZE
        THEN [p  |-> [p EXCEPT !.queue = Append(@, m),
                               !.stats.messages_delayed = @ + 1,
                               !.stats.queue_depth = Len(p.queue) + 1],
              ok |-> TRUE]
        ELSE [p  |-> [p EXCEPT !.queue = Append(Tail(@), m),
                               !.stats.messages_dropped = @ + 1],
              ok |-> FALSE]

\* queue_message(m): put_nowait, or count a drop when the queue is full
queue_message(p, m) ==
    IF Len(p.queue) < PUBLISH_QUEUE_MAX_SIZE
        THEN [p  |-> [p EXCEPT !.queue = Append(@, m),
                               !.stats.messages_delayed = @ + 1,
                               !.stats.queue_depth = Len(p.queue) + 1],
              ok |-> TRUE]
        ELSE [p  |-> [p EXCEPT !.stats.messages_dropped = @ + 1],
              ok |-> FALSE]

\* a publish that gives the message up when the send fails
publish_no_requeue(p, t, m, force_queue, sink_ok) ==
    IF force_queue
    THEN LET r == queue_message(p, m) IN
         [p |-> r.p, ret |-> r.ok, token |-> FALSE, called |-> FALSE, delivered |-> FALSE]
    ELSE LET c == try_consume_token(p, t) IN
         IF c.ok
         THEN IF sink_ok
              THEN [p |-> [c.p EXCEPT !.stats.messages_published = @ + 1],
                    ret |-> TRUE, token |-> TRUE, called |-> TRUE, delivered |-> TRUE]
              ELSE [p |-> c.p, ret |-> FALSE, token |-> TRUE, called |-> TRUE,
                    delivered |-> FALSE]
         ELSE LET r == queue_message([c.p EXCEPT !.stats.burst_events = @ + 1], m) IN
              [p |-> r.p, ret |-> r.ok, token |-> FALSE, called |-> FALSE,
               delivered |-> FALSE]

\* publish(channel, event, m, force_queue); sink_ok: channel.publish does not raise.
\* Result: publisher after the call, return value, whether a token was taken,
\* whether the sink was called, whether the sink accepted the message.
publish(p, t, m, force_queue, sink_ok) ==
    IF force_queue
    THEN LET r == queue_message(p, m) IN
         [p |-> r.p, ret |-> r.ok, token |-> FALSE, called |-> FALSE, delivered |-> FALSE]
    ELSE LET c == try_consume_token(p, t) IN
         IF c.ok
         THEN IF sink_ok
              THEN [p |-> [c.p EXCEPT !.stats.messages_published = @ + 1],
                    ret |-> TRUE, token |-> TRUE, called |-> TRUE, delivered |-> TRUE]
              ELSE LET r == queue_message(c.p, m) IN
                   [p |-> r.p, ret |-> r.ok, token |-> TRUE, called |-> TRUE,
                    delivered |-> FALSE]
         ELSE LET r == queue_message([c.p EXCEPT !.stats.burst_events = @ + 1], m) IN
              [p |-> r.p, ret |-> r.ok, token |-> FALSE, called |-> FALSE,
               delivered |-> FALSE]

\* get_stats(): refills under the lock and reports
get_stats(p, t) == refill_tokens(p, t)

NoCall == [op |-> "none"]

IdleDrain == [pc |-> "idle", drained |-> 0, wake |-> 0]

----------------------------------------------------------------------------
(* The clock *)

Tick ==
    /\ now < lim.time
    /\ now' = now + 1
    /\ UNCHANGED <<rate_limiter, drain, sink, sink_calls, tokens_consumed, last, next_msg>>
    /\ UNCHANGED brvars

----------------------------------------------------------------------------
(* Calls on the publisher *)

\* one call of publish() with a fresh message
DoPublish(m, force_queue, sink_ok) ==
    LET r == publish(rate_limiter, now, m, force_queue, sink_ok) IN
    /\ rate_limiter' = r.p
    /\ sink' = IF r.delivered THEN Append(sink, m) ELSE sink
    /\ sink_calls' = sink_calls + (IF r.called THEN 1 ELSE 0)
    /\ tokens_consumed' = tokens_consumed + (IF r.token THEN 1 ELSE 0)
    /\ last' = [ op |-> "publish", msg |-> m, force_queue |-> force_queue,
                 sink_ok |-> sink_ok, ret |-> r.ret, token |-> r.token,
                 called |-> r.called, delivered |-> r.delivered,
                 before |-> refill_tokens(rate_limiter, now), after |-> r.p ]

CallPublish ==
    /\ drain.pc = "idle"
    /\ next_msg <= MaxMsgs
    /\ \E force_queue \in BOOLEAN, sink_ok \in BOOLEAN :
           DoPublish(next_msg, force_queue, sink_ok)
    /\ next_msg' = next_msg + 1
    /\ UNCHANGED <<now, drain>>
    /\ UNCHANGED brvars

\* one direct call of queue_message() with a fresh message
DoQueueMessage(m) ==
    LET r == queue_message(rate_limiter, m) IN
    /\ rate_limiter' = r.p
    /\ last' = [ op |-> "queue_message", msg |-> m, ret |-> r.ok,
                 before |-> rate_limiter, after |-> r.p ]

CallQueueMessage ==
    /\ drain.pc = "idle"
    /\ next_msg <= MaxMsgs
    /\ DoQueueMessage(next_msg)
    /\ next_msg' = next_msg + 1
    /\ UNCHANGED <<now, drain, sink, sink_calls, tokens_consumed>>
    /\ UNCHANGED brvars

CallGetStats ==
    /\ rate_limiter' = get_stats(rate_limiter, now)
    /\ last' = [op |-> "get_stats", before |-> rate_limiter, after |-> rate_limiter']
    /\ UNCHANGED <<now, drain, sink, sink_calls, tokens_consumed, next_msg>>
    /\ UNCHANGED brvars

\* drain_queue() is entered: drained = 0
DrainStart ==
    /\ drain.pc = "idle"
    /\ drain' = [pc |-> "loop", drained |-> 0, wake |-> 0]
    /\ UNCHANGED <<now, rate_limiter, sink, sink_calls, tokens_consumed, last, next_msg>>
    /\ UNCHANGED brvars

\* drain_queue() leaves its loop: counts the cycle and returns drain.drained
drain_return(p, drained) ==
    IF drained > 0 THEN [p EXCEPT !.stats.drain_cycles = @ + 1] ELSE p

\* a failed send whose message is given up without being counted
drain_put_back_lost(p, m) == p

\* drain_queue(), "Put back for retry": put_nowait, or count a drop on queue.Full
drain_put_back(p, m) ==
    IF Len(p.queue) < PUBLISH_QUEUE_MAX_SIZE
    THEN [p EXCEPT !.queue = Append(@, m)]
    ELSE [p EXCEPT !.stats.messages_dropped = @ + 1]

\* one pass through the while loop of drain_queue()
DrainIter ==
    /\ drain.pc = "loop"
    /\ loop_owner = "none"
    /\ IF rate_limiter.queue = << >>
       THEN \* loop condition false: return
            /\ rate_limiter' = drain_return(rate_limiter, drain.drained)
            /\ drain' = [drain EXCEPT !.pc = "idle"]
            /\ last' = [op |-> "drain_queue", ret |-> drain.drained]
            /\ UNCHANGED <<sink, sink_calls, tokens_consumed>>
       ELSE LET c == try_consume_token(rate_limiter, now) IN
            IF ~c.ok
            THEN \* no token: sleep drain_interval and look again
                 /\ rate_limiter' = c.p
                 /\ drain' = [drain EXCEPT !.pc = "sleep",
                                           !.wake = now + PUBLISH_DRAIN_INTERVAL]
                 /\ UNCHANGED <<sink, sink_calls, tokens_consumed, last>>
            ELSE LET m == Head(c.p.queue)
                     popped == [c.p EXCEPT !.queue = Tail(@)] IN
                 /\ tokens_consumed' = tokens_consumed + 1
                 /\ sink_calls' = sink_calls + 1
                 /\ \E sink_ok \in BOOLEAN :
                      IF sink_ok
                      THEN /\ rate_limiter' =
                                [popped EXCEPT !.stats.messages_published = @ + 1,
                                               !.stats.queue_depth = Len(popped.queue)]
                           /\ sink' = Append(sink, m)
                           /\ drain' = [drain EXCEPT !.drained = @ + 1]
                           /\ UNCHANGED last
                      ELSE \* put the message back (at the tail) and break
                           /\ rate_limiter' = drain_return(drain_put_back(popped, m),
                                                            drain.drained)
                           /\ sink' = sink
                           /\ drain' = [drain EXCEPT !.pc = "idle"]
                           /\ last' = [op |-> "drain_queue", ret |-> drain.drained]
    /\ UNCHANGED <<now, next_msg>>
    /\ UNCHANGED brvars

\* asyncio.sleep(drain_interval) is over
DrainWake ==
    /\ drain.pc = "sleep"
    /\ loop_owner = "none"
    /\ now >= drain.wake
    /\ drain' = [drain EXCEPT !.pc = "loop"]
    /\ UNCHANGED <<now, rate_limiter, sink, sink_calls, tokens_consumed, last, next_msg>>
    /\ UNCHANGED brvars

----------------------------------------------------------------------------
(* Bridge: bounds and constants *)

\* number of samples the source (live or mock) delivers
MaxSamples == 3
\* the DB writer's clock stops here (seconds)
MaxMono == 8
\* longest extra delay of a sleep, and longest duration of a database call (seconds)
MaxDelay == 1
\* capacity of the republish queue (5000 in the source, scaled down)
MAX_QUEUE_SIZE == 2
\* records per database insert (200 in the source, scaled down)
MAX_BATCH_SIZE == 2
\* seconds between two flushes of the DB writer
DB_BATCH_INTERVAL == 2
\* seconds
RETRY_BASE_BACKOFF == 3
\* seconds (60 in the source, scaled down)
RETRY_BACKOFF_MAX == 7

Range(seq) == {seq[i] : i \in 1..Len(seq)}

RECURSIVE Flatten(_)
Flatten(batches) ==
    IF batches = << >> THEN << >> ELSE Head(batches) \o Flatten(Tail(batches))

\* how often x occurs in seq
Count(seq, x) == Cardinality({i \in 1..Len(seq) : seq[i] = x})

\* outcome of one convex_client.mutation call: stored and acknowledged; raised
\* without storing; stored, but the call raised afterwards (response lost or unreadable)
Outcomes == {"ok", "fail", "stored_then_raised"}

----------------------------------------------------------------------------
(* RollingWindow (embedded outlier detection engine) *)

\* window_size of OutlierConfig (50 in the source, scaled down)
WINDOW_SIZE == 3
\* the values pushed are 1..MaxValue; 0 is what a fresh or reset buffer holds
MaxValue == 3
\* pushes into one window between two resets
MaxPushes == 6

Max(a, b) == IF a >= b THEN a ELSE b

\* RollingWindow.__init__: buffer = np.zeros(size), cells 0..size-1
RollingWindow(size) ==
    [size |-> size, buffer |-> [i \in 0..(size - 1) |-> 0], count |-> 0, index |-> 0]

\* a push that counts every value ever pushed
push_counts_all(w, value) ==
    [w EXCEPT !.buffer[w.index] = value,
              !.index = (w.index + 1) % w.size,
              !.count = w.count + 1]

\* RollingWindow.push
push(w, value) ==
    [w EXCEPT !.buffer[w.index] = value,
              !.index = (w.index + 1) % w.size,
              !.count = Min(w.count + 1, w.size)]

\* buffer[a:b] of a numpy array, as a sequence
np_slice(buffer, a, b) == [i \in 1..Max(0, b - a) |-> buffer[a + i - 1]]

\* RollingWindow.last_n; Python's % yields a result in 0..size-1
last_n(w, n) ==
    IF w.count = 0 THEN << >>
    ELSE LET m == Min(n, w.count) IN
         IF w.count < w.size
         THEN np_slice(w.buffer, Max(0, w.count - m), w.count)
         ELSE LET end == w.index
                  start == (end - m) % w.size IN
              IF start < end
              THEN np_slice(w.buffer, start, end)
              ELSE np_slice(w.buffer, start, w.size) \o np_slice(w.buffer, 0, end)

\* RollingWindow.reset
reset(w) == [w EXCEPT !.buffer = [i \in 0..(w.size - 1) |-> 0], !.count = 0, !.index = 0]

\* size of the GPS track window (20 in the source, scaled down)
GPS_TRACK_SIZE == 3

\* GPSTrackWindow.__init__ (the times of the points are not modelled)
GPSTrackWindow(size) ==
    [size |-> size, lats |-> [i \in 0..(size - 1) |-> 0],
     lons |-> [i \in 0..(size - 1) |-> 0], alts |-> [i \in 0..(size - 1) |-> 0],
     count |-> 0, index |-> 0]

\* GPSTrackWindow.push
gps_push(w, lat, lon, alt) ==
    [w EXCEPT !.lats[w.index] = lat, !.lons[w.index] = lon, !.alts[w.index] = alt,
              !.index = (w.index + 1) % w.size,
              !.count = Min(w.count + 1, w.size)]

\* the point in cell i of the track
gps_point(w, i) == [latitude |-> w.lats[i], longitude |-> w.lons[i], altitude |-> w.alts[i]]

\* GPSTrackWindow.get_last: None below two points, else the cell at index - 2
get_last(w) ==
    IF w.count < 2 THEN << >> ELSE <<gps_point(w, (w.index - 2) % w.size)>>

----------------------------------------------------------------------------
(* OutlierDetector (embedded outlier detection engine; src/outlier_detector.py is the
   same code).  A sample is a function from the fields it carries to their values;
   the values are integers.  A confidence is kept exact, as the fraction num/den or
   its square root. *)

\* OutlierConfig
Z_SCORE_THRESHOLD == 5
VOLTAGE_MIN == 35
VOLTAGE_MAX == 60
CURRENT_MIN == -10
CURRENT_MAX == 35
POWER_MIN == -500
POWER_MAX == 2500
\* electrical_jump_pct = 0.50 = 1 / 2
ELECTRICAL_JUMP_INV == 2
\* stuck_sensor_count (15 in the source, scaled down)
STUCK_SENSOR_COUNT == 2
ACCEL_MAGNITUDE_MAX == 80
GYRO_RATE_MAX == 1000
SPEED_MAX == 50
SPEED_IMPOSSIBLE_ACCEL == 50
\* sample_interval = 0.2 s = 1 / 5
SAMPLE_RATE == 5
\* "window.count >= 10" of the z-score checks (scaled down with the window)
Z_MIN_COUNT == 2
\* "energy - self.last_energy > 50000"
ENERGY_STEP_MAX == 50000
\* "distance - self.last_distance > 100"
DISTANCE_STEP_MAX == 100

ROLLING_FIELDS == {"voltage_v", "current_a", "power_w", "gyro_x", "gyro_y", "gyro_z",
                   "accel_x", "accel_y", "accel_z", "speed_ms"}

CRITICAL_FIELDS == {"voltage_v", "current_a", "power_w"}

Abs(x) == IF x < 0 THEN -x ELSE x

\* data.get(field, default)
Get(data, field, default) == IF field \in DOMAIN data THEN data[field] ELSE default

\* the fields of a sample whose value is a string that is not a number; the record
\* holds 0 in their place, which nothing reads
Text(data) == Get(data, "text", {})

\* an Optional value: << >> is None
Some(x) == <<x>>

\* the confidence 1.0
Certain == [num |-> 1, den |-> 1, root |-> FALSE]

\* min(1.0, x) for x = num / den, or x = sqrt(num / den) if root; den > 0
min1(num, den, root) ==
    IF num >= den THEN Certain ELSE [num |-> num, den |-> den, root |-> root]

\* c > 0.9
above_09(c) == IF c.root THEN 100 * c.num > 81 * c.den ELSE 10 * c.num > 9 * c.den

\* flagged.add(field); confidence[field] = c; reasons[field] = reason
Flag(acc, field, c, reason) ==
    [flagged |-> acc.flagged \cup {field},
     confidence |-> (field :> c) @@ acc.confidence,
     reasons |-> (field :> reason) @@ acc.reasons]

NothingFlagged == [flagged |-> {}, confidence |-> << >>, reasons |-> << >>]

RECURSIVE SeqSum(_)
SeqSum(seq) == IF seq = << >> THEN 0 ELSE Head(seq) + SeqSum(Tail(seq))

\* RollingWindow.get_values
get_values(w) ==
    IF w.count < w.size THEN np_slice(w.buffer, 0, w.count)
                        ELSE np_slice(w.buffer, 0, w.size)

\* n, the sum and the sum of squares of values: mean = sum / n and
\* std^2 = (n * squares - sum^2) / n^2  (np.mean, np.std)
sums_of(values) ==
    [n |-> Len(values), sum |-> SeqSum(values),
     squares |-> SeqSum([i \in 1..Len(values) |-> values[i] * values[i]])]

\* the sums of window.get_values()
window_sums(w) == sums_of(get_values(w))

\* std > 0 and z > threshold, for dev2 = (n * |x - mean|)^2 and var2 = (n * std)^2;
\* confidence min(1.0, z / (threshold * 2))
z_score_flag(acc, field, dev2, var2) ==
    IF var2 > 0 /\ dev2 > Z_SCORE_THRESHOLD * Z_SCORE_THRESHOLD * var2
    THEN Flag(acc, field,
              min1(dev2, 4 * Z_SCORE_THRESHOLD * Z_SCORE_THRESHOLD * var2, TRUE),
              "z_score_exceeded")
    ELSE acc

\* z = abs(x - mean) / std of a window with the sums m
z_score_of(acc, field, x, m) ==
    z_score_flag(acc, field, (m.n * x - m.sum) * (m.n * x - m.sum),
                 m.n * m.squares - m.sum * m.sum)

\* the z-score check of voltage and current
z_score_check(acc, field, x, w) == z_score_of(acc, field, x, window_sums(w))

\* mean > 0 and |x - mean| / mean > electrical_jump_pct, on a window with the sums m
jump_of(acc, field, x, m) ==
    IF /\ m.sum > 0
       /\ ELECTRICAL_JUMP_INV * Abs(m.n * x - m.sum) > m.sum
       /\ field \notin acc.flagged
    THEN Flag(acc, field, [num |-> 7, den |-> 10, root |-> FALSE], "sudden_jump")
    ELSE acc

\* the jump check of voltage
jump_check(acc, field, x, w) == jump_of(acc, field, x, window_sums(w))

\* _detect_electrical, "if 'voltage_v' in data"
voltage_check(det, data, acc) ==
    IF "voltage_v" \notin DOMAIN data THEN acc
    ELSE IF data["voltage_v"] < VOLTAGE_MIN \/ data["voltage_v"] > VOLTAGE_MAX
    THEN Flag(acc, "voltage_v", Certain, "absolute_bound")
    ELSE IF det.windows["voltage_v"].count >= Z_MIN_COUNT
    THEN jump_check(z_score_check(acc, "voltage_v", data["voltage_v"],
                                  det.windows["voltage_v"]),
                    "voltage_v", data["voltage_v"], det.windows["voltage_v"])
    ELSE acc

\* _detect_electrical, "if 'current_a' in data"
current_check(det, data, acc) ==
    IF "current_a" \notin DOMAIN data THEN acc
    ELSE IF data["current_a"] < CURRENT_MIN \/ data["current_a"] > CURRENT_MAX
    THEN Flag(acc, "current_a", Certain, "absolute_bound")
    ELSE IF det.windows["current_a"].count >= Z_MIN_COUNT
    THEN z_score_check(acc, "current_a", data["current_a"], det.windows["current_a"])
    ELSE acc

\* _detect_electrical, "if 'power_w' in data"
power_check(data, acc) ==
    IF "power_w" \in DOMAIN data
         /\ (data["power_w"] < POWER_MIN \/ data["power_w"] > POWER_MAX)
    THEN Flag(acc, "power_w", Certain, "absolute_bound")
    ELSE acc

\* OutlierDetector._detect_electrical
detect_electrical(det, data, acc) ==
    power_check(data, current_check(det, data, voltage_check(det, data, acc)))

\* rate = abs(x - last_vals[0]) > limit, for the last value of a window that has one;
\* confidence min(1.0, rate * scale / (limit * 2))
rate_check(acc, field, x, w, last_vals, scale, limit) ==
    IF w.count > 0 /\ Len(last_vals) > 0 /\ Abs(x - last_vals[1]) * scale > limit
    THEN Flag(acc, field, min1(Abs(x - last_vals[1]) * scale, limit * 2, FALSE),
              "rate_of_change")
    ELSE acc

\* the rate check of one gyro axis against the last value of its window
gyro_check(det, data, acc, field) ==
    IF field \notin DOMAIN data THEN acc
    ELSE rate_check(acc, field, data[field], det.windows[field],
                    last_n(det.windows[field], 1), 1, GYRO_RATE_MAX)

\* _detect_imu, the magnitude of the acceleration; max() keeps the first of equal axes
magnitude_check(data, acc, ax, ay, az) ==
    IF {"accel_x", "accel_y", "accel_z"} \cap DOMAIN data # {}
         /\ ax * ax + ay * ay + az * az > ACCEL_MAGNITUDE_MAX * ACCEL_MAGNITUDE_MAX
    THEN Flag(acc,
              IF Abs(ax) >= Abs(ay) /\ Abs(ax) >= Abs(az) THEN "accel_x"
              ELSE IF Abs(ay) >= Abs(az) THEN "accel_y" ELSE "accel_z",
              min1(ax * ax + ay * ay + az * az,
                   ACCEL_MAGNITUDE_MAX * ACCEL_MAGNITUDE_MAX, TRUE),
              "magnitude_exceeded")
    ELSE acc

\* OutlierDetector._detect_imu
detect_imu(det, data, acc) ==
    gyro_check(det, data,
               gyro_check(det, data,
                          gyro_check(det, data,
                                     magnitude_check(data, acc, Get(data, "accel_x", 0),
                                                     Get(data, "accel_y", 0),
                                                     Get(data, "accel_z", 0)),
                                     "gyro_x"),
                          "gyro_y"),
               "gyro_z")

\* OutlierDetector._detect_speed
detect_speed(det, data, acc) ==
    IF "speed_ms" \notin DOMAIN data THEN acc
    ELSE IF data["speed_ms"] < 0 THEN Flag(acc, "speed_ms", Certain, "negative_value")
    ELSE IF data["speed_ms"] > SPEED_MAX
    THEN Flag(acc, "speed_ms", min1(2 * data["speed_ms"], 3 * SPEED_MAX, FALSE),
              "absolute_bound")
    ELSE rate_check(acc, "speed_ms", data["speed_ms"], det.windows["speed_ms"],
                    last_n(det.windows["speed_ms"], 1), SAMPLE_RATE,
                    SPEED_IMPOSSIBLE_ACCEL)

\* one of the two checks of _detect_cumulative, for a value that compares lower
\* without being reported
cumulative_check_silent(acc, field, x, last_x, step_max) ==
    IF last_x # << >> /\ x >= last_x[1] /\ x - last_x[1] > step_max
    THEN Flag(acc, field, [num |-> 8, den |-> 10, root |-> FALSE], "implausible_increase")
    ELSE acc

\* one of the two checks of _detect_cumulative: the value against the last one seen
cumulative_check(acc, field, x, last_x, step_max) ==
    IF last_x = << >> THEN acc
    ELSE IF x < last_x[1] THEN Flag(acc, field, Certain, "non_monotonic")
    ELSE IF x - last_x[1] > step_max
    THEN Flag(acc, field, [num |-> 8, den |-> 10, root |-> FALSE], "implausible_increase")
    ELSE acc

\* OutlierDetector._detect_cumulative: the flags, and the detector with the last
\* values replaced
detect_cumulative(det, data, acc) ==
    [acc |-> IF "distance_m" \in DOMAIN data
             THEN cumulative_check(
                    IF "energy_j" \in DOMAIN data
                    THEN cumulative_check(acc, "energy_j", data["energy_j"],
                                          det.last_energy, ENERGY_STEP_MAX)
                    ELSE acc,
                    "distance_m", data["distance_m"], det.last_distance,
                    DISTANCE_STEP_MAX)
             ELSE IF "energy_j" \in DOMAIN data
             THEN cumulative_check(acc, "energy_j", data["energy_j"], det.last_energy,
                                   ENERGY_STEP_MAX)
             ELSE acc,
     det |-> [det EXCEPT
                !.last_energy = IF "energy_j" \in DOMAIN data
                                THEN Some(data["energy_j"]) ELSE @,
                !.last_distance = IF "distance_m" \in DOMAIN data
                                  THEN Some(data["distance_m"]) ELSE @]]

\* a counter that a different value does not reset
stuck_count_kept(det, data, field) ==
    IF field \in DOMAIN det.last_values /\ det.last_values[field] = data[field]
    THEN Get(det.stuck_counters, field, 0) + 1
    ELSE Get(det.stuck_counters, field, 0)

\* the counter of one field after a sample that carries it
stuck_count(det, data, field) ==
    IF field \in DOMAIN det.last_values /\ det.last_values[field] = data[field]
    THEN Get(det.stuck_counters, field, 0) + 1
    ELSE 0

\* a stuck check that also reports fields an earlier check has flagged
stuck_flags_all(det, data, acc, field) ==
    /\ field \in DOMAIN det.last_values
    /\ det.last_values[field] = data[field]
    /\ stuck_count(det, data, field) >= STUCK_SENSOR_COUNT

\* whether _detect_stuck_sensors reports the field
stuck_flags(det, data, acc, field) ==
    /\ field \in DOMAIN det.last_values
    /\ det.last_values[field] = data[field]
    /\ stuck_count(det, data, field) >= STUCK_SENSOR_COUNT
    /\ field \notin acc.flagged

\* _detect_stuck_sensors on the fields present, of which stuck are reported
stuck_sensors(det, data, acc, present, stuck) ==
    [acc |-> [flagged |-> acc.flagged \cup stuck,
              confidence |->
                 [f \in stuck |-> min1(stuck_count(det, data, f), STUCK_SENSOR_COUNT * 2,
                                       FALSE)] @@ acc.confidence,
              reasons |-> [f \in stuck |-> "stuck_sensor"] @@ acc.reasons],
     det |-> [det EXCEPT
                !.stuck_counters =
                    [f \in present |-> stuck_count(det, data, f)] @@ @,
                !.last_values = [f \in present |-> data[f]] @@ @]]

\* OutlierDetector._detect_stuck_sensors: the fields are independent of each other
detect_stuck_sensors(det, data, acc) ==
    stuck_sensors(det, data, acc, ROLLING_FIELDS \cap DOMAIN data,
                  {f \in ROLLING_FIELDS \cap DOMAIN data : stuck_flags(det, data, acc, f)})

\* OutlierDetector._update_windows
update_windows(det, data) ==
    [det EXCEPT !.windows = [f \in ROLLING_FIELDS |->
                               IF f \in DOMAIN data THEN push(@[f], data[f]) ELSE @[f]]]

\* a severity rule without the count of flagged fields
severity_by_confidence(flagged, confidence) ==
    IF flagged \cap CRITICAL_FIELDS # {} THEN "critical"
    ELSE IF \E f \in DOMAIN confidence : above_09(confidence[f]) THEN "warning"
    ELSE "info"

\* detect(): the severity of a non-empty set of flagged fields
severity(flagged, confidence) ==
    IF flagged \cap CRITICAL_FIELDS # {} THEN "critical"
    ELSE IF Cardinality(flagged) >= 3 THEN "warning"
    ELSE IF \E f \in DOMAIN confidence : above_09(confidence[f]) THEN "warning"
    ELSE "info"

\* OutlierDetector.__init__
OutlierDetector ==
    [windows |-> [f \in ROLLING_FIELDS |-> RollingWindow(WINDOW_SIZE)],
     last_energy |-> << >>, last_distance |-> << >>,
     stuck_counters |-> << >>, last_values |-> << >>, text |-> {},
     gps_track |-> GPSTrackWindow(GPS_TRACK_SIZE)]

\* what detect() returns for the flags acc: << >> for {}
detect_result(acc) ==
    IF acc.flagged = {} THEN << >>
    ELSE <<[flagged_fields |-> acc.flagged, confidence |-> acc.confidence,
            reasons |-> acc.reasons, severity |-> severity(acc.flagged, acc.confidence)]>>

\* detect() after _detect_cumulative has left the flags and the detector c
detect_end(c, data) == [det |-> update_windows(c.det, data), out |-> detect_result(c.acc)]

detect_stuck(c, data) == detect_end(detect_stuck_sensors(c.det, data, c.acc), data)

\* OutlierDetector.detect for a sample without GPS fields (_detect_gps returns at
\* its first test): the detector afterwards, and what is returned
detect(det, data) ==
    detect_stuck(
        detect_cumulative(
            det, data,
            detect_speed(det, data,
                         detect_imu(det, data,
                                    detect_electrical(det, data, NothingFlagged)))),
        data)

\* whether detect() raises a TypeError on a sample with a non-numeric field: at
\* ax**2 in _detect_imu, or in _detect_cumulative at the comparison of energy_j with
\* the last energy when one of the two is a string.  Nothing of the detector modelled
\* here is written before these places.
detect_raises(det, data) ==
    \/ Text(data) \cap {"accel_x", "accel_y", "accel_z"} # {}
    \/ "energy_j" \in Text(data) /\ det.last_energy # << >>
    \/ "energy_j" \in DOMAIN data /\ "last_energy" \in det.text

\* a detect() that returned r, after a sample whose energy_j is a string if text
returned(r, text) ==
    [det |-> IF text THEN [r.det EXCEPT !.last_energy = Some(0), !.text = {"last_energy"}]
             ELSE r.det,
     raised |-> FALSE, out |-> r.out]

\* detect() inside the try of the normalizer.  A first energy_j that is a string is
\* compared with nothing and stored as last_energy.
detect_guarded(det, data) ==
    IF detect_raises(det, data) THEN [det |-> det, raised |-> TRUE, out |-> << >>]
    ELSE returned(detect(det, [f \in DOMAIN data \ (Text(data) \cap {"energy_j"})
                                  |-> data[f]]),
                  "energy_j" \in Text(data))

\* OutlierConfig and _detect_gps; latitude and longitude are kept in 0.001 degree
LATITUDE_LIMIT == 90000
LONGITUDE_LIMIT == 180000
ALTITUDE_MIN == -500
ALTITUDE_MAX == 10000
GPS_SPEED_DISTANCE_RATIO == 20
GPS_IMPOSSIBLE_SPEED == 500
ALTITUDE_RATE_MAX == 50
\* "dlat * 111000" and "dlon * 78000": metres per 0.001 degree
METRES_LAT == 111
METRES_LON == 78

\* dist_m ** 2 between the point prev and the sample
dist_m2(prev, data) ==
    ((data.latitude - prev.latitude) * METRES_LAT) * ((data.latitude - prev.latitude) * METRES_LAT)
      + ((data.longitude - prev.longitude) * METRES_LON)
          * ((data.longitude - prev.longitude) * METRES_LON)

\* _detect_gps: the three absolute bounds
gps_bounds(lat, lon, alt, acc) ==
    LET a == IF lat < -LATITUDE_LIMIT \/ lat > LATITUDE_LIMIT
                THEN Flag(acc, "latitude", Certain, "absolute_bound") ELSE acc
        b == IF lon < -LONGITUDE_LIMIT \/ lon > LONGITUDE_LIMIT
                THEN Flag(a, "longitude", Certain, "absolute_bound") ELSE a
    IN  IF alt < ALTITUDE_MIN \/ alt > ALTITUDE_MAX
           THEN Flag(b, "altitude", Certain, "absolute_bound") ELSE b

\* "expected_dist > 0 and dist_m / expected_dist > cfg.gps_speed_distance_ratio",
\* expected_dist = speed * sample_interval; d2 is dist_m ** 2
speed_mismatch(d2, speed, acc) ==
    IF speed > 0 /\ d2 * SAMPLE_RATE * SAMPLE_RATE
                      > GPS_SPEED_DISTANCE_RATIO * GPS_SPEED_DISTANCE_RATIO * speed * speed
    THEN Flag(acc, "latitude",
              min1(d2 * SAMPLE_RATE * SAMPLE_RATE,
                   4 * GPS_SPEED_DISTANCE_RATIO * GPS_SPEED_DISTANCE_RATIO * speed * speed,
                   TRUE),
              "gps_speed_mismatch")
    ELSE acc

\* "dist_m / dt > cfg.gps_impossible_speed and 'latitude' not in flagged"
impossible_speed(d2, acc) ==
    IF d2 * SAMPLE_RATE * SAMPLE_RATE > GPS_IMPOSSIBLE_SPEED * GPS_IMPOSSIBLE_SPEED
       /\ "latitude" \notin acc.flagged
    THEN Flag(acc, "latitude",
              min1(d2 * SAMPLE_RATE * SAMPLE_RATE,
                   4 * GPS_IMPOSSIBLE_SPEED * GPS_IMPOSSIBLE_SPEED, TRUE),
              "impossible_speed")
    ELSE acc

\* "abs(alt - prev_alt) > cfg.altitude_rate_max and 'altitude' not in flagged"
altitude_rate(step, acc) ==
    IF step > ALTITUDE_RATE_MAX /\ "altitude" \notin acc.flagged
    THEN Flag(acc, "altitude", min1(step, 2 * ALTITUDE_RATE_MAX, FALSE), "altitude_rate")
    ELSE acc

\* _detect_gps, "if prev is not None": the movement checks against the point prev
gps_moves(prev, data, alt, speed, acc) ==
    IF prev = << >> THEN acc
    ELSE altitude_rate(Abs(alt - prev[1].altitude),
                       impossible_speed(dist_m2(prev[1], data),
                                        speed_mismatch(dist_m2(prev[1], data), speed, acc)))

\* whether _detect_gps goes past "if lat is None or lon is None: return"
located(data) == "latitude" \in DOMAIN data /\ "longitude" \in DOMAIN data

\* OutlierDetector._detect_gps: the flags
detect_gps(det, data, acc) ==
    IF ~located(data) THEN acc
    ELSE gps_moves(get_last(det.gps_track), data,
                   Get(data, "altitude", 0), Get(data, "speed_ms", 0),
                   gps_bounds(data.latitude, data.longitude, Get(data, "altitude", 0), acc))

\* OutlierDetector._detect_gps: the push that ends it
gps_track_after(track, data) ==
    IF ~located(data) THEN track
    ELSE gps_push(track, data.latitude, data.longitude, Get(data, "altitude", 0))

\* what detect() leaves and returns, the track written
with_track(r, track) == [det |-> [r.det EXCEPT !.gps_track = track], out |-> r.out]

\* OutlierDetector.detect for any sample, with or without GPS fields
detect_located(det, data) ==
    with_track(
        detect_stuck(
            detect_cumulative(
                det, data,
                detect_speed(det, data,
                    detect_gps(det, data,
                        detect_imu(det, data,
                                   detect_electrical(det, data, NothingFlagged))))),
            data),
        gps_track_after(det.gps_track, data))

\* the detector and the history after a detect() on data that returned r
Detected(data, r) ==
    /\ detector' = r.det
    /\ detected' = Append(detected, [data |-> data, out |-> r.out])

\* one call of detect(), on any of the samples the run is fed with
Detect ==
    /\ Len(detected) < lim.detects
    /\ \E data \in lim.feed : Detected(data, detect(detector, data))
    /\ UNCHANGED <<pubvars, corevars, winvars, calcvars, normalized, genvars, jrnvars>>

\* one call of detect() on a sample that may carry a GPS point; the history also
\* keeps the point get_last() gave to the movement checks
DetectLocated ==
    /\ Len(detected) < lim.detects
    /\ \E data \in lim.feed :
         /\ detector' = detect_located(detector, data).det
         /\ detected' = Append(detected,
                               [data |-> data, out |-> detect_located(detector, data).out,
                                prev |-> get_last(detector.gps_track)])
    /\ UNCHANGED <<pubvars, corevars, winvars, calcvars, normalized, genvars, jrnvars>>

----------------------------------------------------------------------------
(* TelemetryCalculator: the state behind the peaks of current and acceleration.  The
   other derived metrics (efficiency, maxima, averages, optimal speed, motion state,
   route) are not modelled.  Accelerations are kept in 0.01 m/s^2. *)

\* window_size of the calculator's windows (50 in the source); with fewer than 6
\* values no value is more than two standard deviations above the mean
CALC_WINDOW == 6
\* MAX_PEAKS_STORED (50 in the source)
MAX_PEAKS_STORED == 2
\* the number of peaks in a result, "[-10:]" in the source
PEAKS_REPORTED == 1
\* data.get("accel_z", 9.81), in 0.01 m/s^2
GRAVITY == 981
\* "accel_mag > 2.0", in 0.01 m/s^2
ACCEL_PEAK_MIN == 200

\* seq[-n:]
LastOf(seq, n) == IF Len(seq) <= n THEN seq ELSE SubSeq(seq, Len(seq) - n + 1, Len(seq))

\* TelemetryCalculator.__init__
TelemetryCalculator ==
    [current_window |-> RollingWindow(CALC_WINDOW),
     accel_magnitude_window |-> RollingWindow(CALC_WINDOW),
     current_peaks |-> << >>, acceleration_peaks |-> << >>, message_count |-> 0]

\* math.sqrt(accel_x**2 + accel_y**2 + (accel_z - 9.81)**2) for a sample that
\* accelerates along one axis: along x with accel_z absent (9.81 by default), or along
\* z with accel_x = accel_y = 0
accel_mag(data) ==
    IF "accel_z" \in DOMAIN data THEN Abs(100 * data["accel_z"] - GRAVITY)
    ELSE 100 * Abs(Get(data, "accel_x", 0))

\* x > mean * 1.5 over the values of the window
over_mean(w, x) == LET m == window_sums(w) IN 2 * m.n * x > 3 * m.sum

\* std > 0 over the values of the window (std() is 0.0 with fewer than 2 values)
has_spread(w) ==
    LET m == window_sums(w) IN m.n >= 2 /\ m.n * m.squares - m.sum * m.sum > 0

\* x > mean + 2 * std over the values of the window
over_spread(w, x) ==
    LET m == window_sums(w)
        dev == m.n * x - m.sum IN
    dev > 0 /\ dev * dev > 4 * (m.n * m.squares - m.sum * m.sum)

\* _detect_current_peak is not None: current > max(mean + 2 std if std > 0 else
\* mean * 1.5, mean * 1.5) and mean > 0.5
detect_current_peak(w, current) ==
    /\ over_mean(w, current)
    /\ has_spread(w) => over_spread(w, current)
    /\ LET m == window_sums(w) IN 2 * m.sum > m.n

\* _detect_acceleration_peak is not None: accel_mag > (mean + 2 std if std > 0 else
\* mean * 1.5) and accel_mag > 2.0
detect_acceleration_peak(w, mag) ==
    /\ IF has_spread(w) THEN over_spread(w, mag) ELSE over_mean(w, mag)
    /\ mag > ACCEL_PEAK_MIN

\* a list of peaks that is never cut
keep_peak_all(peaks, found, peak) == IF found THEN Append(peaks, peak) ELSE peaks

\* calculate(): the list of peaks after one sample: the new peak appended, the list
\* cut to its last MAX_PEAKS_STORED entries
keep_peak(peaks, found, peak) ==
    IF found THEN LastOf(Append(peaks, peak), MAX_PEAKS_STORED) ELSE peaks

\* where calculate() raises on a sample with a non-numeric field: at accel_x**2 (the
\* current window is pushed, the acceleration window is not), or at the comparison in
\* _classify_driver_intensity (both windows pushed, no peak looked for)
calculate_raises(data) ==
    IF Text(data) \cap {"accel_x", "accel_y", "accel_z"} # {} THEN "accel"
    ELSE IF Text(data) \cap {"throttle_pct", "brake_pct"} # {} THEN "driver"
    ELSE "none"

\* TelemetryCalculator.calculate: the calculator afterwards, whether it raised, the
\* peaks it found (a peak is named by the number of its sample and carries its value)
\* and the peak entries of the result
calculate(calc, data) ==
    LET n == calc.message_count + 1
        current == Get(data, "current_a", 0)
        at == calculate_raises(data)
        cw == push(calc.current_window, current)
        mag == accel_mag(data)
        aw == push(calc.accel_magnitude_window, mag)
        c_found == detect_current_peak(cw, current)
        a_found == detect_acceleration_peak(aw, mag)
        c_peaks == keep_peak(calc.current_peaks, c_found, [at |-> n, value |-> current])
        a_peaks == keep_peak(calc.acceleration_peaks, a_found, [at |-> n, value |-> mag])
        pushed1 == [calc EXCEPT !.message_count = n, !.current_window = cw] IN
    CASE at = "accel"  -> [calc |-> pushed1, raised |-> TRUE,
                           found |-> [current |-> FALSE, acceleration |-> FALSE],
                           out |-> << >>]
      [] at = "driver" -> [calc |-> [pushed1 EXCEPT !.accel_magnitude_window = aw],
                           raised |-> TRUE,
                           found |-> [current |-> FALSE, acceleration |-> FALSE],
                           out |-> << >>]
      [] OTHER ->
           [calc |-> [pushed1 EXCEPT !.accel_magnitude_window = aw,
                                     !.current_peaks = c_peaks,
                                     !.acceleration_peaks = a_peaks],
            raised |-> FALSE,
            found |-> [current |-> c_found, acceleration |-> a_found],
            out |-> <<[current_peaks |-> LastOf(c_peaks, PEAKS_REPORTED),
                       current_peak_count |-> Len(c_peaks),
                       acceleration_peaks |-> LastOf(a_peaks, PEAKS_REPORTED),
                       acceleration_peak_count |-> Len(a_peaks)]>>]

NoPeaks == [current |-> [count |-> 0, recent |-> << >>],
            acceleration |-> [count |-> 0, recent |-> << >>], out |-> << >>]

\* the number of peaks detected so far and the last MAX_PEAKS_STORED of them
peak_logged(log, found, peak) ==
    IF found THEN [count |-> log.count + 1,
                   recent |-> LastOf(Append(log.recent, peak), MAX_PEAKS_STORED)]
    ELSE log

\* the history of the calculator after a call
calc_logged(log, calc, data, r) ==
    [current |-> peak_logged(log.current, r.found.current,
                             [at |-> r.calc.message_count,
                              value |-> Get(data, "current_a", 0)]),
     acceleration |-> peak_logged(log.acceleration, r.found.acceleration,
                                  [at |-> r.calc.message_count, value |-> accel_mag(data)]),
     out |-> r.out]

\* one call of calculate(), on any of the samples the run is fed with
Calculate ==
    /\ calculator.message_count < lim.calcs
    /\ \E data \in lim.feed :
         LET r == calculate(calculator, data) IN
           /\ calculator' = r.calc
           /\ calc_log' = calc_logged(calc_log, calculator, data, r)
    /\ UNCHANGED <<pubvars, corevars, winvars, detvars, normalized, genvars, jrnvars>>

----------------------------------------------------------------------------
(* MockDataGenerator: which calls of generate() return None.  The sample it builds
   otherwise is not modelled here. *)

\* random.randint(3, 10), the length drawn for a burst
BURST_MIN == 3
BURST_MAX == 10

\* MockDataGenerator.__init__ with a fresh MockModeConfig
MockDataGenerator == [stall_active |-> FALSE, burst_drop_count |-> 0, messages_dropped |-> 0,
                      message_count |-> 0]

\* what a call draws: random() < stall_probability, now >= stall_end_time,
\* random() < burst_drop_probability, randint(3, 10), random() < drop_probability
Rolls ==
    [stall : BOOLEAN, stall_over : BOOLEAN, burst : BOOLEAN,
     count : BURST_MIN..BURST_MAX, drop : BOOLEAN]

\* _should_stall: the answer and the generator afterwards
should_stall(gen, roll) ==
    IF gen.stall_active
    THEN IF ~roll.stall_over THEN [stalled |-> TRUE, gen |-> gen]
         ELSE [stalled |-> FALSE, gen |-> [gen EXCEPT !.stall_active = FALSE]]
    ELSE IF roll.stall THEN [stalled |-> TRUE, gen |-> [gen EXCEPT !.stall_active = TRUE]]
    ELSE [stalled |-> FALSE, gen |-> gen]

\* a burst whose first drop is counted in its length
should_drop_message_counted(gen, roll) ==
    IF gen.burst_drop_count > 0
    THEN [drop |-> TRUE, burst |-> "goes on",
          gen |-> [gen EXCEPT !.burst_drop_count = @ - 1]]
    ELSE IF roll.burst
    THEN [drop |-> TRUE, burst |-> "starts",
          gen |-> [gen EXCEPT !.burst_drop_count = roll.count - 1]]
    ELSE [drop |-> roll.drop, burst |-> "none", gen |-> gen]

\* _should_drop_message: the answer, what it has to do with a burst, and the
\* generator afterwards
should_drop_message(gen, roll) ==
    IF gen.burst_drop_count > 0
    THEN [drop |-> TRUE, burst |-> "goes on",
          gen |-> [gen EXCEPT !.burst_drop_count = @ - 1]]
    ELSE IF roll.burst
    THEN [drop |-> TRUE, burst |-> "starts",
          gen |-> [gen EXCEPT !.burst_drop_count = roll.count]]
    ELSE [drop |-> roll.drop, burst |-> "none", gen |-> gen]

\* generate(): "stalled", "dropped" (None both) or "sample", and the generator afterwards
generate(gen, roll) ==
    LET st == should_stall(gen, roll)
        dr == should_drop_message(st.gen, roll) IN
    IF st.stalled THEN [returned |-> "stalled", burst |-> "none", gen |-> st.gen]
    ELSE IF dr.drop
    THEN [returned |-> "dropped", burst |-> dr.burst,
          gen |-> [dr.gen EXCEPT !.messages_dropped = @ + 1]]
    ELSE [returned |-> "sample", burst |-> "none",
          gen |-> [dr.gen EXCEPT !.message_count = @ + 1]]

NoCalls == [calls |-> 0, burst_run |-> 0, drawn |-> 0, returned |-> "none"]

\* one call of generate()
Generate ==
    /\ gen_log.calls < lim.gens
    /\ \E roll \in Rolls :
         LET r == generate(mock_generator, roll) IN
           /\ mock_generator' = r.gen
           /\ gen_log' = [calls |-> gen_log.calls + 1,
                          burst_run |-> CASE r.burst = "starts" -> 1
                                          [] r.burst = "goes on" -> gen_log.burst_run + 1
                                          [] OTHER -> gen_log.burst_run,
                          drawn |-> IF r.burst = "starts" THEN roll.count ELSE gen_log.drawn,
                          returned |-> r.returned]
    /\ UNCHANGED <<pubvars, corevars, winvars, detvars, calcvars, normalized, jrnvars>>

----------------------------------------------------------------------------
(* LocalJournal on its file: the lines append() writes and what iter_records() and
   export_csv() read back.  A line is the JSON text of a record, or what a write that
   raised left behind of it. *)

\* json.dumps(record) + "\n"
json_line(record) == [json |-> TRUE, object |-> record]

\* a line cut short by a write that raised
torn_line(record) == [json |-> FALSE, object |-> record]

\* what a write() that raises may leave in the file: nothing, or a part of the line
WriteOutcomes == IF Len(journal_log.appended) - Len(ndjson) < lim.faults
                 THEN {"written", "nothing", "torn"} ELSE {"written"}

\* LocalJournal.append: the file afterwards; the exception of a write is caught
append(file, record, outcome) ==
    CASE outcome = "written" -> Append(file, json_line(record))
      [] outcome = "torn"    -> Append(file, torn_line(record))
      [] OTHER               -> file

\* LocalJournal.iter_records: json.loads of every line that decodes, in file order
iter_records(file) ==
    LET decodes == SelectSeq(file, LAMBDA line : line.json) IN
    [i \in 1..Len(decodes) |-> decodes[i].object]

\* the row of one record: rec.get(col, "") per column, << >> for the empty cell
csv_row(rec, field_order) ==
    [c \in 1..Len(field_order) |->
        IF field_order[c] \in DOMAIN rec THEN <<rec[field_order[c]]>> ELSE << >>]

\* LocalJournal.export_csv: the header, the rows and the number returned
csv_export(file, field_order) ==
    LET records == iter_records(file) IN
    [header |-> field_order,
     rows |-> [i \in 1..Len(records) |-> csv_row(records[i], field_order)],
     n |-> Len(records)]

NoAppends == [appended |-> << >>, before |-> << >>, op |-> "none", export |-> << >>]

\* one call of append()
JournalAppend ==
    /\ Len(journal_log.appended) < lim.appends
    /\ \E record \in lim.feed, outcome \in WriteOutcomes :
         /\ ndjson' = append(ndjson, record, outcome)
         /\ journal_log' = [journal_log EXCEPT !.appended = Append(@, record),
                                              !.before = ndjson, !.op = "append"]
    /\ UNCHANGED <<pubvars, corevars, winvars, detvars, calcvars, normalized, genvars>>

\* one call of export_csv()
JournalExport ==
    /\ \E field_order \in lim.orders :
         journal_log' = [journal_log EXCEPT
                           !.op = "export",
                           !.export = <<csv_export(ndjson, field_order)>>]
    /\ UNCHANGED <<pubvars, corevars, winvars, detvars, calcvars, normalized, genvars,
                   ndjson>>

----------------------------------------------------------------------------
(* _normalize_telemetry_data, as far as the detector, the calculator and the driver
   inputs go.  Session stamp, timestamp, total_acceleration and the GPS fields are not
   modelled; latitude and longitude of a sample are their defaults, on which
   _detect_gps flags nothing.  Percentages are kept in 0.001 %, the 0..1 forms in
   0.00001, so that "throttle_pct = 100 * throttle" is equality of the two numbers. *)

\* 100 % and 1.0
FULL == 100000
\* round(.., 2) of a percentage and round(.., 3) of a 0..1 form, as steps
PCT_STEP == 10
UNIT_STEP == 100

DRIVER_INPUTS == {"throttle_pct", "throttle", "brake_pct", "brake"}

\* the defaults of the fields modelled
Defaults ==
    [speed_ms |-> 0, voltage_v |-> 0, current_a |-> 0, power_w |-> 0, energy_j |-> 0,
     distance_m |-> 0, gyro_x |-> 0, gyro_y |-> 0, gyro_z |-> 0, accel_x |-> 0,
     accel_y |-> 0, accel_z |-> 0, throttle_pct |-> 0, brake_pct |-> 0, throttle |-> 0,
     brake |-> 0]

\* for k, v in defaults.items(): out.setdefault(k, v)
with_defaults(data) == data @@ Defaults

\* if not out.get("power_w"): power_w = voltage_v * current_a
with_power(out) ==
    IF "power_w" \notin Text(out) /\ out["power_w"] = 0
    THEN [out EXCEPT !["power_w"] = out["voltage_v"] * out["current_a"]]
    ELSE out

\* round(x, n) of a value x >= 0 that is not half way between two steps
round_to(x, step) == ((2 * x + step) \div (2 * step)) * step

\* _clamp01(v), in units: max(0.0, min(1.0, float(v))), 0.0 if float(v) raises
clamp01(out, field) ==
    IF field \in Text(out) THEN 0 ELSE Max(0, Min(FULL, out[field]))

\* out.get(field, 0) == 0
is_zero(out, field) == field \notin Text(out) /\ out[field] = 0

\* the first two assignments: a percentage that is 0 is filled from the 0..1 form
fill_pct(out, pct, unit) ==
    IF is_zero(out, pct) /\ ~is_zero(out, unit)
    THEN [out EXCEPT ![pct] = round_to(clamp01(out, unit), PCT_STEP)]
    ELSE out

\* the last two assignments: a 0..1 form that is 0 is filled from the percentage
\* (a percentage that is a string raises at the division; no such sample is fed)
fill_unit(out, pct, unit) ==
    IF is_zero(out, unit) /\ ~is_zero(out, pct)
    THEN [out EXCEPT ![unit] = round_to(clamp01(out, pct), UNIT_STEP)]
    ELSE out

\* "sync driver inputs between % and 0..1"
reconcile(out) ==
    fill_unit(fill_unit(fill_pct(fill_pct(out, "throttle_pct", "throttle"),
                                 "brake_pct", "brake"),
                        "throttle_pct", "throttle"),
              "brake_pct", "brake")

\* the sample _normalize_telemetry_data returns: its driver inputs as they came and as
\* they leave, its outliers (<< >> for None), what the calculator added (<< >> if it
\* raised), and which of the two raised; with it the detector and the calculator
\* afterwards
normalized_sample(fed, out, d, c) ==
    [det |-> d.det, calc |-> c.calc, seen |-> out, detect |-> d, calculate |-> c,
     out |-> [text |-> Text(out), voltage_v |-> out["voltage_v"],
              fed |-> [f \in DRIVER_INPUTS |-> fed[f]],
              throttle_pct |-> out["throttle_pct"], throttle |-> out["throttle"],
              brake_pct |-> out["brake_pct"], brake |-> out["brake"],
              outliers |-> d.out, derived |-> c.out,
              detector_raised |-> d.raised, calculator_raised |-> c.raised]]

\* the two try blocks, on the sample out
normalize_tail(det, calc, fed, out) ==
    normalized_sample(fed, out, detect_guarded(det, out), calculate(calc, out))

\* _normalize_telemetry_data
normalize_telemetry_data(det, calc, data) ==
    normalize_tail(det, calc, with_defaults(data),
                   reconcile(with_power(with_defaults(data))))

\* the samples a run may normalize: those its bounds name.  A run whose bounds name
\* none carries its samples as numbers only.
Feed == IF "feed" \in DOMAIN lim THEN lim.feed ELSE {}

\* the modules and the history after a run of the normalizer that gave r
Normalized(r) ==
    /\ detector' = r.det
    /\ detected' = Append(detected, [data |-> r.seen, out |-> r.detect.out])
    /\ calculator' = r.calc
    /\ calc_log' = calc_logged(calc_log, calculator, r.seen, r.calculate)
    /\ normalized' = Append(normalized, r.out)

\* the normalize step of the ingest of one sample
Normalize ==
    IF Feed = {} THEN UNCHANGED <<detvars, calcvars, normalized>>
    ELSE \E data \in Feed :
           Normalized(normalize_telemetry_data(detector, calculator, data))

----------------------------------------------------------------------------
(* The modules as the bridge holds them, and the calls on a rolling window *)

NoPushes == [pushes |-> 0, last |-> 0]

\* the modules as the bridge constructs them
ModulesStart ==
    /\ window = RollingWindow(WINDOW_SIZE)
    /\ window_log = NoPushes
    /\ detector = OutlierDetector
    /\ detected = << >>
    /\ calculator = TelemetryCalculator
    /\ calc_log = NoPeaks
    /\ normalized = << >>
    /\ mock_generator = MockDataGenerator
    /\ gen_log = NoCalls
    /\ ndjson = << >>
    /\ journal_log = NoAppends

WindowPush ==
    /\ window_log.pushes < MaxPushes
    /\ \E value \in 1..MaxValue :
         /\ window' = push(window, value)
         /\ window_log' = [pushes |-> window_log.pushes + 1, last |-> value]
    /\ UNCHANGED <<pubvars, corevars, detvars, calcvars, normalized, genvars, jrnvars>>

WindowReset ==
    /\ window_log.pushes > 0
    /\ window' = reset(window)
    /\ window_log' = NoPushes
    /\ UNCHANGED <<pubvars, corevars, detvars, calcvars, normalized, genvars, jrnvars>>

----------------------------------------------------------------------------
(* ConnectionHealth, and the constants of the connection management *)

\* seconds
RECONNECT_BASE_DELAY == 1
\* failed attempts in a row after which a reconnect fails fast (10 in the source,
\* scaled down)
RECONNECT_MAX_ATTEMPTS == 1
\* seconds between two health checks (10 in the source, scaled down)
HEALTH_CHECK_INTERVAL == 1
\* seconds without a message after which the source is stale (30 in the source,
\* scaled down)
WATCHDOG_TIMEOUT == 1

Channels == {"esp32", "dashboard"}

\* the dataclass defaults
ConnectionHealth ==
    [ is_connected       |-> FALSE,
      last_message_time  |-> 0,
      reconnect_attempts |-> 0,
      total_reconnects   |-> 0 ]

\* record_message
record_message(h, t) == [h EXCEPT !.last_message_time = t]

\* a watchdog that counts the silence from the start of the clock
is_stale_unheard(h, t, timeout) == t - h.last_message_time > timeout

\* is_stale(timeout)
is_stale(h, t, timeout) ==
    IF h.last_message_time = 0 THEN FALSE ELSE t - h.last_message_time > timeout

\* reset_for_reconnect
reset_for_reconnect(h) ==
    [h EXCEPT !.is_connected = FALSE,
              !.reconnect_attempts = @ + 1,
              !.total_reconnects = @ + 1]

FreeLock == [owner |-> "none", wake_at |-> 0]

\* per channel: the delays slept since the last successful connection, the number of
\* successful reconnects, a bit that every reconnect call flips once it holds the
\* lock; healed: the source was reconnected and has sent nothing since; heard_at:
\* when the live callback last counted a message
NoReconnects ==
    [ delays    |-> [c \in Channels |-> << >>],
      successes |-> [c \in Channels |-> 0],
      calls     |-> [c \in Channels |-> 0],
      healed    |-> FALSE,
      heard_at  |-> << >> ]

\* min(RECONNECT_BASE_DELAY * (2 ** reconnect_attempts), RETRY_BACKOFF_MAX)
reconnect_delay(attempts) ==
    Min(RECONNECT_BASE_DELAY * (2 ^ attempts), RETRY_BACKOFF_MAX)

\* a reconnect that never gives up
reconnect_enter_uncapped(h) ==
    LET r == reset_for_reconnect(h) IN
    [h |-> r, attempt |-> TRUE, delay |-> reconnect_delay(r.reconnect_attempts)]

\* _reconnect_esp32 / _reconnect_dashboard from the lock to the delay: at the cap
\* the call returns False, otherwise reset_for_reconnect and the delay to sleep
reconnect_enter(h) ==
    IF h.reconnect_attempts >= RECONNECT_MAX_ATTEMPTS
        THEN [h |-> h, attempt |-> FALSE, delay |-> 0]
        ELSE LET r == reset_for_reconnect(h) IN
             [h |-> r, attempt |-> TRUE,
              delay |-> reconnect_delay(r.reconnect_attempts)]

\* the end of a reconnect: connected, or the except branch
reconnect_finish(h, ok) ==
    IF ok THEN [h EXCEPT !.is_connected = TRUE, !.reconnect_attempts = 0] ELSE h

\* stats["reconnect_count"] += 1, or _count_error
reconnect_stats(st, ok) ==
    IF ok THEN [st EXCEPT !.reconnect_count = @ + 1] ELSE [st EXCEPT !.errors = @ + 1]

\* health_monitor: "if client and client.connection.state != 'connected'"
state_check(h, has_client, connected) ==
    IF has_client /\ ~connected THEN [h EXCEPT !.is_connected = FALSE] ELSE h

log_call(log, ch, r) ==
    [log EXCEPT !.calls[ch] = 1 - @,
                !.delays[ch] = IF r.attempt THEN Append(@, r.delay) ELSE @]

log_finish(log, ch, ok) ==
    IF ok THEN [log EXCEPT !.successes[ch] = @ + 1,
                           !.delays[ch] = << >>,
                           !.healed = IF ch = "esp32" THEN TRUE ELSE @]
          ELSE log

----------------------------------------------------------------------------
(* LocalJournal *)

\* append(record): one line written to the journal file; written = FALSE: the
\* write raised, the error is logged and append returns normally
journal_append(j, rec, written) == IF written THEN Append(j, rec) ELSE j

\* journal writes that may fail in one run
MaxFaults == 1

\* whether the next journal write may succeed, may fail
journal_outcomes ==
    IF (next_sample - 1) - Len(journal) < lim.faults THEN BOOLEAN ELSE {TRUE}

\* export_csv: one row per record of the journal
export_csv(j) == Range(j)

----------------------------------------------------------------------------
(* Ingest: _on_esp32_message_received and generate_mock_data_loop *)

\* message_queue.put_nowait(s): appended, or queue.Full
mq_put(q, s) ==
    IF Len(q) < MAX_QUEUE_SIZE
        THEN [q |-> Append(q, s), full |-> FALSE]
        ELSE [q |-> q, full |-> TRUE]

\* a Full handler that keeps the old entries and discards the new sample
mq_drop_newest(q, s) == [q |-> q, dropped |-> 1]

\* the except queue.Full branch: get_nowait(), put_nowait(s), messages_dropped += 1;
\* on queue.Empty nothing is put and nothing is counted
mq_drop_oldest(q, s) ==
    IF q = << >>
        THEN [q |-> q, dropped |-> 0]
        ELSE [q |-> Append(Tail(q), s), dropped |-> 1]

\* no mutual exclusion
can_acquire_always(lock) == TRUE

\* threading.Lock.acquire succeeds only on a free lock
can_acquire(lock) == lock = "free"

\* the core fields of _validate_message, and one field that is not a core field
core_fields == {"speed_ms", "voltage_v", "current_a"}

FieldNames == core_fields \cup {"gyro_x"}

\* BINARY_FIELD_NAMES and power_w, as far as FieldNames tells them apart
binary_fields == core_fields

\* message.data of a source message: bytes, a str or a dict (or something else);
\* its text is not JSON ("garbage"), JSON that is not an object ("array"), a JSON
\* object with the fields given, or a binary frame of BINARY_MESSAGE_SIZE bytes
AllPayloads ==
    {[form |-> f, body |-> b, fields |-> {}] :
         f \in {"bytes", "str"}, b \in {"garbage", "array"}}
      \cup {[form |-> f, body |-> "object", fields |-> F] :
               f \in {"bytes", "str", "dict"}, F \in SUBSET FieldNames}
      \cup {[form |-> "bytes", body |-> "binary", fields |-> binary_fields],
            [form |-> "other", body |-> "garbage", fields |-> {}]}

NoPayload == [form |-> "none", body |-> "none", fields |-> {}]

\* a well-formed sample, the only payload of a run that rejects nothing
GoodPayload == [form |-> "bytes", body |-> "object", fields |-> core_fields]

Payloads == IF lim.rejects > 0 THEN AllPayloads ELSE {GoodPayload}

\* messages a run may reject
MaxRejects == 2

None == [is_none |-> TRUE, is_dict |-> FALSE, fields |-> {}]

\* json.loads
json_loads(payload) ==
    CASE payload.body = "object" -> [is_none |-> FALSE, is_dict |-> TRUE,
                                     fields |-> payload.fields]
      [] payload.body = "array"  -> [is_none |-> FALSE, is_dict |-> FALSE,
                                     fields |-> {}]
      [] OTHER                   -> None

\* _parse_binary_message
parse_binary_message(payload) ==
    IF payload.form = "bytes" /\ payload.body = "binary"
        THEN [is_none |-> FALSE, is_dict |-> TRUE, fields |-> payload.fields]
        ELSE None

\* the head of the callback: data from message.data.  For bytes it is
\* "_parse_json_message(..) or _parse_binary_message(..)": a JSON value that is
\* falsy (the empty object) gives way to the binary parser.
parse_message(payload) ==
    CASE payload.form = "bytes" ->
            LET j == json_loads(payload) IN
            IF j.is_none \/ (j.is_dict /\ j.fields = {})
                THEN parse_binary_message(payload) ELSE j
      [] payload.form = "str"   -> json_loads(payload)
      [] payload.form = "dict"  -> [is_none |-> FALSE, is_dict |-> TRUE,
                                    fields |-> payload.fields]
      [] OTHER                  -> None

\* a validation that takes every dict
validate_message_any_dict(data) == data.is_dict

\* _validate_message: a dict with at least one core field
validate_message(data) == data.is_dict /\ data.fields \cap core_fields # {}

\* the callback goes on to normalize and journal the message
accepts(payload) ==
    LET data == parse_message(payload) IN ~data.is_none /\ validate_message(data)

\* live callback, "1) durable journal": parse, validate and normalize are local to
\* the callback; its first shared effect is the journal append
IngestJournal ==
    /\ ~mock_mode
    /\ src_open
    /\ link.esp32
    /\ ing.pc = "idle"
    /\ next_sample <= lim.samples
    /\ \E payload \in Payloads :
         /\ accepts(payload)
         /\ ing' = [pc |-> "put", sample |-> next_sample, payload |-> payload]
    /\ \E written \in journal_outcomes :
         journal' = journal_append(journal, next_sample, written)
    /\ next_sample' = next_sample + 1
    /\ Normalize
    /\ UNCHANGED <<pubvars, cfgvars, winvars, genvars, jrnvars, connvars, lifevars,
                   dbvars, loop_owner, stats, message_queue, mock_pc, rp, buffered,
                   rejected>>

\* live callback on a message that does not parse or does not validate:
\* _count_error and return
IngestReject ==
    /\ ~mock_mode
    /\ src_open
    /\ link.esp32
    /\ ing.pc = "idle"
    /\ Len(rejected) < lim.rejects
    /\ \E payload \in Payloads :
         /\ ~accepts(payload)
         /\ ing' = [pc |-> "idle", sample |-> 0, payload |-> payload]
    /\ stats' = [stats EXCEPT !.errors = @ + 1]
    /\ rejected' = Append(rejected, next_sample)
    /\ UNCHANGED <<pubvars, cfgvars, modvars, connvars, lifevars, dbvars, loop_owner, next_sample,
                   journal, message_queue, mock_pc, rp, buffered>>

\* live callback: message_queue.put_nowait(normalized)
IngestPut ==
    /\ ing.pc = "put"
    /\ LET r == mq_put(message_queue, ing.sample) IN
         /\ message_queue' = r.q
         /\ ing' = [ing EXCEPT !.pc = IF r.full THEN "drop" ELSE "buffer"]
    /\ UNCHANGED <<pubvars, cfgvars, modvars, connvars, lifevars, dbvars, loop_owner, stats,
                   next_sample, journal, mock_pc, rp, buffered,
                   rejected>>

\* live callback: the queue.Full handler
IngestDrop ==
    /\ ing.pc = "drop"
    /\ LET r == mq_drop_oldest(message_queue, ing.sample) IN
         /\ message_queue' = r.q
         /\ stats' = [stats EXCEPT !.messages_dropped = @ + r.dropped]
    /\ ing' = [ing EXCEPT !.pc = "buffer"]
    /\ UNCHANGED <<pubvars, cfgvars, modvars, connvars, lifevars, dbvars, loop_owner,
                   next_sample, journal, mock_pc, rp, buffered,
                   rejected>>

\* live callback: with db_buffer_lock: db_buffer.append; then the counters
IngestBuffer ==
    /\ ing.pc = "buffer"
    /\ can_acquire(db_buffer_lock)
    /\ db_buffer' = Append(db_buffer, ing.sample)
    /\ buffered' = Append(buffered, ing.sample)
    /\ stats' = [stats EXCEPT !.messages_received = @ + 1]
    /\ esp32_health' = record_message(esp32_health, now_mono)
    /\ conn_log' = [conn_log EXCEPT !.healed = FALSE, !.heard_at = <<now_mono>>]
    /\ ing' = [pc |-> "idle", sample |-> 0, payload |-> NoPayload]
    /\ UNCHANGED <<pubvars, cfgvars, modvars, dashboard_health, link, reconnect_lock, hm, st_pc,
                   lifevars, loop_owner, next_sample, journal,
                   message_queue, mock_pc, rp, db_buffer_lock, db_retry_queue,
                   db_retry_backoff, db_write_failures, database, wr, now_mono,
                   snapshots, rejected>>

\* loop head of every task: while self.running and not self.shutdown_event.is_set()
loop_head == IF running /\ ~shutdown_event THEN "sleep" ELSE "exit"

\* one turn of generate_mock_data_loop: the loop condition, then the body up to its
\* sleep; no await in between.  produced = FALSE: the generator returned None
\* (stall or drop).
MockTick ==
    /\ mock_mode
    /\ mock_pc = "sleep"
    /\ loop_owner = "none"
    /\ mock_pc' = loop_head
    /\ \E produced \in BOOLEAN :
         IF produced /\ loop_head = "sleep"
         THEN /\ next_sample <= lim.samples
              /\ can_acquire(db_buffer_lock)
              /\ LET s  == next_sample
                     r  == mq_put(message_queue, s)
                     d  == IF r.full THEN mq_drop_oldest(message_queue, s)
                                     ELSE [q |-> r.q, dropped |-> 0] IN
                   /\ \E written \in journal_outcomes :
                        journal' = journal_append(journal, s, written)
                   /\ message_queue' = d.q
                   /\ db_buffer' = Append(db_buffer, s)
                   /\ buffered' = Append(buffered, s)
                   /\ stats' = [stats EXCEPT !.messages_dropped = @ + d.dropped,
                                             !.messages_received = @ + 1]
                   /\ next_sample' = s + 1
         ELSE UNCHANGED <<journal, message_queue, db_buffer, buffered, stats,
                          next_sample>>
    /\ UNCHANGED <<pubvars, cfgvars, modvars, connvars, lifevars, loop_owner, ing, rp, db_buffer_lock,
                   db_retry_queue, db_retry_backoff, db_write_failures, database,
                   wr, now_mono, snapshots, rejected>>

----------------------------------------------------------------------------
(* Republish: republish_messages *)

\* messages taken from the republish queue in one pass (20 in the source, scaled down)
REPUBLISH_BATCH == 2

\* _reconnect_dashboard once it holds the lock: the cap, reset_for_reconnect, the
\* delay; a call that fails fast leaves the sink disconnected, so the pass ends in
\* asyncio.sleep(1) and continue
RepublishReconnectEnter ==
    LET r == reconnect_enter(dashboard_health) IN
    /\ conn_log' = log_call(conn_log, "dashboard", r)
    /\ dashboard_health' = r.h
    /\ IF r.attempt
       THEN /\ reconnect_lock' = [owner |-> "dashboard", wake_at |-> now_mono + r.delay]
            /\ rp' = [rp EXCEPT !.pc = "rc_sleep"]
       ELSE /\ rp' = [rp EXCEPT !.pc = "sleep"]
            /\ UNCHANGED reconnect_lock

\* a pass that goes on whatever the sink's health record says
sink_ready_always(h) == TRUE

\* republish_messages, "Check connection health": not "if not ...is_connected"
sink_ready(h) == h.is_connected

\* the pass starts: loop condition, then the connection check: a connected sink
\* leads into drain_queue(), a disconnected one into _reconnect_dashboard()
RepublishWake ==
    /\ rp.pc = "sleep"
    /\ loop_owner = "none"
    /\ IF loop_head = "sleep"
       THEN IF sink_ready(dashboard_health)
            THEN /\ rp' = [rp EXCEPT !.pc = "drain"]
                 /\ drain' = [pc |-> "loop", drained |-> 0, wake |-> 0]
                 /\ UNCHANGED <<dashboard_health, reconnect_lock, conn_log>>
            ELSE /\ IF reconnect_lock.owner # "none"
                    THEN /\ rp' = [rp EXCEPT !.pc = "rc_lock"]
                         /\ UNCHANGED <<dashboard_health, reconnect_lock, conn_log>>
                    ELSE RepublishReconnectEnter
                 /\ UNCHANGED drain
       ELSE /\ rp' = [rp EXCEPT !.pc = "exit"]
            /\ UNCHANGED <<drain, dashboard_health, reconnect_lock, conn_log>>
    /\ UNCHANGED <<now, rate_limiter, sink, sink_calls, tokens_consumed, last, next_msg,
                   cfgvars, modvars, esp32_health, link, hm, st_pc, lifevars, dbvars,
                   loop_owner, stats, next_sample, journal, message_queue, ing,
                   mock_pc, buffered, rejected>>

\* _reconnect_dashboard gets the lock it waited for
RepublishLock ==
    /\ rp.pc = "rc_lock"
    /\ loop_owner = "none"
    /\ reconnect_lock.owner = "none"
    /\ RepublishReconnectEnter
    /\ UNCHANGED <<pubvars, cfgvars, modvars, esp32_health, link, hm, st_pc, lifevars, dbvars,
                   loop_owner, stats, next_sample, journal, message_queue, ing,
                   mock_pc, buffered, rejected>>

\* _reconnect_dashboard after its delay: the old client is closed, a new one is
\* made and awaited (ok: it connected); then the pass goes on into drain_queue(),
\* or ends in asyncio.sleep(1) and continue
RepublishReconnect ==
    /\ rp.pc = "rc_sleep"
    /\ loop_owner = "none"
    /\ now_mono >= reconnect_lock.wake_at
    /\ \E ok \in BOOLEAN :
         /\ dashboard_health' = reconnect_finish(dashboard_health, ok)
         /\ link' = [link EXCEPT !.dashboard = ok]
         /\ stats' = reconnect_stats(stats, ok)
         /\ conn_log' = log_finish(conn_log, "dashboard", ok)
         /\ IF ok
            THEN /\ rp' = [rp EXCEPT !.pc = "drain"]
                 /\ drain' = [pc |-> "loop", drained |-> 0, wake |-> 0]
            ELSE /\ rp' = [rp EXCEPT !.pc = "sleep"]
                 /\ UNCHANGED drain
    /\ reconnect_lock' = FreeLock
    /\ UNCHANGED <<now, rate_limiter, sink, sink_calls, tokens_consumed, last, next_msg,
                   cfgvars, modvars, esp32_health, hm, st_pc, lifevars, dbvars, loop_owner,
                   next_sample, journal, message_queue, ing, mock_pc, buffered,
                   rejected>>

\* drain_queue() has returned: count what it drained, then take the batch
RepublishTake ==
    /\ rp.pc = "drain"
    /\ drain.pc = "idle"
    /\ loop_owner = "none"
    /\ LET n == Min(REPUBLISH_BATCH, Len(message_queue)) IN
         /\ rp' = [rp EXCEPT !.pc = "publish", !.batch = SubSeq(message_queue, 1, n)]
         /\ message_queue' = SubSeq(message_queue, n + 1, Len(message_queue))
    /\ stats' = [stats EXCEPT !.messages_republished = @ + drain.drained]
    /\ dashboard_health' = IF drain.drained > 0
                              THEN record_message(dashboard_health, now_mono)
                              ELSE dashboard_health
    /\ UNCHANGED <<pubvars, cfgvars, modvars, esp32_health, link, reconnect_lock, hm, st_pc,
                   conn_log, lifevars, dbvars, loop_owner, next_sample,
                   journal, ing, mock_pc, buffered, rejected>>

\* "for m in batch": rate_limiter.publish(m); counted when it returns True.
\* publish() catches what the send raises, so the except branch of the loop
\* is never entered through a failed send.
RepublishPublish ==
    /\ rp.pc = "publish"
    /\ rp.batch # << >>
    /\ loop_owner = "none"
    /\ \E sink_ok \in BOOLEAN : DoPublish(Head(rp.batch), FALSE, sink_ok)
    /\ stats' = [stats EXCEPT !.messages_republished =
                                  @ + (IF last'.ret THEN 1 ELSE 0)]
    /\ dashboard_health' = IF last'.ret
                              THEN record_message(dashboard_health, now_mono)
                              ELSE dashboard_health
    /\ rp' = [rp EXCEPT !.batch = Tail(@)]
    /\ UNCHANGED <<now, drain, next_msg, cfgvars, modvars, esp32_health, link, reconnect_lock,
                   hm, st_pc, conn_log, lifevars, dbvars, loop_owner,
                   next_sample, journal, message_queue, ing, mock_pc, buffered,
                   rejected>>

\* the batch is done: asyncio.sleep(0.05)
RepublishSleep ==
    /\ rp.pc = "publish"
    /\ rp.batch = << >>
    /\ loop_owner = "none"
    /\ rp' = [rp EXCEPT !.pc = "sleep"]
    /\ UNCHANGED <<pubvars, cfgvars, modvars, connvars, lifevars, dbvars, loop_owner, stats, next_sample,
                   journal, message_queue, ing, mock_pc, buffered,
                   rejected>>

----------------------------------------------------------------------------
(* DB writer: database_batch_writer and _write_batches_to_database *)

\* slices whose end is one too far: buffer_copy[i : i + MAX_BATCH_SIZE + 1]
Chunks_long_slices(buf) ==
    [i \in 1..((Len(buf) + MAX_BATCH_SIZE - 1) \div MAX_BATCH_SIZE) |->
        SubSeq(buf, (i - 1) * MAX_BATCH_SIZE + 1,
               Min(i * MAX_BATCH_SIZE + 1, Len(buf)))]

\* buffer_copy[i : i + MAX_BATCH_SIZE] for i in range(0, len, MAX_BATCH_SIZE)
RECURSIVE Chunks(_)
Chunks(buf) ==
    IF buf = << >> THEN << >>
    ELSE IF Len(buf) <= MAX_BATCH_SIZE THEN <<buf>>
    ELSE <<SubSeq(buf, 1, MAX_BATCH_SIZE)>>
             \o Chunks(SubSeq(buf, MAX_BATCH_SIZE + 1, Len(buf)))

\* a writer that gives a batch up once two writes have failed
submit_batch_giveup(batch, outcome) ==
    [ retry    |-> IF outcome = "ok" \/ db_write_failures >= 2 THEN db_retry_queue
                   ELSE Append(db_retry_queue, batch),
      failures |-> IF outcome = "ok" THEN db_write_failures ELSE db_write_failures + 1,
      database |-> IF outcome = "fail" THEN database ELSE database \cup Range(batch),
      stats    |-> IF outcome = "ok"
                      THEN [stats EXCEPT !.messages_stored_db = @ + Len(batch)]
                      ELSE [stats EXCEPT !.errors = @ + 1],
      ok       |-> outcome = "ok" ]

\* body of the for loop of _write_batches_to_database for one batch
submit_batch(batch, outcome) ==
    [ retry    |-> IF outcome = "ok" THEN db_retry_queue
                                     ELSE Append(db_retry_queue, batch),
      failures |-> IF outcome = "ok" THEN db_write_failures ELSE db_write_failures + 1,
      database |-> IF outcome = "fail" THEN database ELSE database \cup Range(batch),
      stats    |-> IF outcome = "ok"
                      THEN [stats EXCEPT !.messages_stored_db = @ + Len(batch)]
                      ELSE [stats EXCEPT !.errors = @ + 1],
      ok       |-> outcome = "ok" ]

\* _write_batches_to_database without a client: everything goes to the retry queue
submit_no_client(batches) ==
    [ retry    |-> db_retry_queue \o batches,
      failures |-> db_write_failures + Len(batches),
      database |-> database,
      stats    |-> stats,
      ok       |-> FALSE ]

\* one step of _write_batches_to_database(batches): with a client the first batch
\* is submitted, without one all are put on the retry queue.  rest: what is left.
WriteStep(batches, rest, ok) ==
    IF convex_client
    THEN \E outcome \in Outcomes :
            LET r == submit_batch(Head(batches), outcome) IN
            /\ db_retry_queue' = r.retry
            /\ db_write_failures' = r.failures
            /\ database' = r.database
            /\ stats' = r.stats
            /\ rest = Tail(batches)
            /\ ok = r.ok
    ELSE LET r == submit_no_client(batches) IN
            /\ db_retry_queue' = r.retry
            /\ db_write_failures' = r.failures
            /\ database' = r.database
            /\ stats' = r.stats
            /\ rest = << >>
            /\ ok = r.ok

\* the backoff after a round of retries
retry_backoff_after(backoff, ok) ==
    IF ok THEN RETRY_BASE_BACKOFF ELSE Min(RETRY_BACKOFF_MAX, backoff * 2)

\* the writer's loop comes back to its head and sleeps, or leaves
WriterEndCycle(w) ==
    /\ wr' = [w EXCEPT !.pc = loop_head, !.batches = << >>, !.copy = << >>]
    /\ loop_owner' = "none"

\* a writer that retries whenever batches are waiting
retry_due_always(queue, t, next_retry_at) == queue # << >>

\* "if self.db_retry_queue and now_mono >= next_retry_at"
retry_due(queue, t, next_retry_at) == queue # << >> /\ t >= next_retry_at

\* asyncio.sleep(DB_BATCH_INTERVAL) is over; "Retry failed batches if it's time"
WriterWake ==
    /\ wr.pc = "sleep"
    /\ loop_owner = "none"
    /\ \E d \in 0..MaxDelay :
         /\ now_mono + DB_BATCH_INTERVAL + d <= lim.mono
         /\ now_mono' = now_mono + DB_BATCH_INTERVAL + d
    /\ IF retry_due(db_retry_queue, now_mono', wr.next_retry_at)
       THEN /\ wr' = [wr EXCEPT !.pc = "retry_write", !.batches = db_retry_queue,
                                !.all_ok = TRUE, !.waiting_since = << >>]
            /\ db_retry_queue' = << >>
       ELSE /\ wr' = [wr EXCEPT !.pc = "flush_lock"]
            /\ UNCHANGED db_retry_queue
    /\ loop_owner' = "writer"
    /\ UNCHANGED <<pubvars, cfgvars, modvars, connvars, lifevars, ingvars, stats, db_buffer,
                   db_buffer_lock, db_retry_backoff, db_write_failures, database,
                   snapshots>>

\* the writer submits the next batch of the round (retry or fresh)
WriterSubmit ==
    /\ wr.pc \in {"retry_write", "fresh_write"}
    /\ wr.batches # << >>
    /\ \E rest \in {Tail(wr.batches), << >>}, ok \in BOOLEAN :
         /\ WriteStep(wr.batches, rest, ok)
         /\ wr' = [wr EXCEPT !.batches = rest, !.all_ok = @ /\ ok,
                             !.failed_at = IF ok THEN @ ELSE <<now_mono>>,
                             !.waiting_since = IF ok \/ db_retry_queue # << >>
                                               THEN @ ELSE <<now_mono>>]
    /\ UNCHANGED <<pubvars, cfgvars, modvars, connvars, lifevars, ingvars, loop_owner, db_buffer,
                   db_buffer_lock, db_retry_backoff, now_mono, snapshots>>

\* after the retry round: the backoff and the next deadline
WriterRetryDone ==
    /\ wr.pc = "retry_write"
    /\ wr.batches = << >>
    /\ db_retry_backoff' = retry_backoff_after(db_retry_backoff, wr.all_ok)
    /\ \E d \in 0..MaxDelay :
         /\ now_mono + d <= lim.mono
         /\ now_mono' = now_mono + d
    /\ wr' = [wr EXCEPT !.pc = "flush_lock",
                        !.next_retry_at = now_mono' + db_retry_backoff']
    /\ UNCHANGED <<pubvars, cfgvars, modvars, connvars, lifevars, ingvars, loop_owner, stats, db_buffer,
                   db_buffer_lock, db_retry_queue, db_write_failures, database,
                   snapshots>>

\* "with self.db_buffer_lock:" is entered
WriterLock ==
    /\ wr.pc = "flush_lock"
    /\ can_acquire(db_buffer_lock)
    /\ db_buffer_lock' = "writer"
    /\ wr' = [wr EXCEPT !.pc = "flush_copy"]
    /\ UNCHANGED <<pubvars, cfgvars, modvars, connvars, lifevars, ingvars, loop_owner, stats, db_buffer,
                   db_retry_queue, db_retry_backoff, db_write_failures, database,
                   now_mono, snapshots>>

\* buffer_copy = list(self.db_buffer)
WriterCopy ==
    /\ wr.pc = "flush_copy"
    /\ wr' = [wr EXCEPT !.pc = "flush_clear", !.copy = db_buffer]
    /\ snapshots' = IF db_buffer = << >> THEN snapshots ELSE Append(snapshots, db_buffer)
    /\ UNCHANGED <<pubvars, cfgvars, modvars, connvars, lifevars, ingvars, loop_owner, stats, db_buffer,
                   db_buffer_lock, db_retry_queue, db_retry_backoff,
                   db_write_failures, database, now_mono>>

\* self.db_buffer.clear(), the lock is released, the copy is cut into chunks
WriterClear ==
    /\ wr.pc = "flush_clear"
    /\ db_buffer' = << >>
    /\ db_buffer_lock' = "free"
    /\ IF wr.copy # << >>
       THEN /\ wr' = [wr EXCEPT !.pc = "fresh_write", !.batches = Chunks(wr.copy),
                                !.all_ok = TRUE, !.copy = << >>]
            /\ UNCHANGED loop_owner
       ELSE WriterEndCycle(wr)
    /\ UNCHANGED <<pubvars, cfgvars, modvars, connvars, lifevars, ingvars, stats, db_retry_queue,
                   db_retry_backoff, db_write_failures, database, now_mono,
                   snapshots>>

\* after the fresh chunks: "if not ok: next_retry_at = monotonic() + backoff"
WriterFreshDone ==
    /\ wr.pc = "fresh_write"
    /\ wr.batches = << >>
    /\ \E d \in 0..MaxDelay :
         /\ now_mono + d <= lim.mono
         /\ now_mono' = now_mono + d
    /\ WriterEndCycle(IF wr.all_ok THEN wr
                      ELSE [wr EXCEPT !.next_retry_at = now_mono' + db_retry_backoff])
    /\ UNCHANGED <<pubvars, cfgvars, modvars, connvars, lifevars, ingvars, stats, db_buffer,
                   db_buffer_lock, db_retry_queue, db_retry_backoff,
                   db_write_failures, database, snapshots>>

----------------------------------------------------------------------------
(* Connections: the clock, the state of the links, health_monitor, print_stats *)

\* time passes
MonoTick ==
    /\ now_mono < lim.mono
    /\ now_mono' = now_mono + 1
    /\ UNCHANGED <<pubvars, cfgvars, modvars, connvars, lifevars, ingvars, loop_owner, stats,
                   db_buffer, db_buffer_lock, db_retry_queue, db_retry_backoff,
                   db_write_failures, database, wr, snapshots>>

\* the connection of a client is lost
LinkDrop ==
    /\ \E ch \in Channels :
         /\ link[ch]
         /\ link' = [link EXCEPT ![ch] = FALSE]
    /\ UNCHANGED <<pubvars, cfgvars, modvars, esp32_health, dashboard_health, reconnect_lock,
                   hm, st_pc, conn_log, lifevars, ingvars, dbvars, loop_owner,
                   stats>>

\* health_monitor: the two connection state checks, then the loop head and the sleep
HealthChecks(e, l) ==
    /\ esp32_health' = state_check(e, ~mock_mode, l.esp32)
    /\ dashboard_health' = state_check(dashboard_health, TRUE, l.dashboard)
    /\ hm' = [pc |-> loop_head, wake_at |-> now_mono + HEALTH_CHECK_INTERVAL]

\* _reconnect_esp32 once it holds the lock, e the health record at the call
HealthReconnectEnter(e) ==
    LET r == reconnect_enter(e) IN
    /\ conn_log' = log_call(conn_log, "esp32", r)
    /\ IF r.attempt
       THEN /\ esp32_health' = r.h
            /\ reconnect_lock' = [owner |-> "esp32", wake_at |-> now_mono + r.delay]
            /\ hm' = [hm EXCEPT !.pc = "rc_sleep"]
            /\ UNCHANGED dashboard_health
       ELSE /\ HealthChecks(e, link)
            /\ UNCHANGED reconnect_lock

\* health_monitor wakes: the watchdog, then (unless a reconnect has to be awaited)
\* the connection state checks
HealthWake ==
    /\ hm.pc = "sleep"
    /\ loop_owner = "none"
    /\ now_mono >= hm.wake_at
    /\ IF ~mock_mode /\ is_stale(esp32_health, now_mono, WATCHDOG_TIMEOUT)
       THEN LET e == [esp32_health EXCEPT !.is_connected = FALSE] IN
            IF reconnect_lock.owner # "none"
            THEN /\ esp32_health' = e
                 /\ hm' = [hm EXCEPT !.pc = "rc_lock"]
                 /\ UNCHANGED <<dashboard_health, reconnect_lock, conn_log>>
            ELSE HealthReconnectEnter(e)
       ELSE /\ HealthChecks(esp32_health, link)
            /\ UNCHANGED <<reconnect_lock, conn_log>>
    /\ UNCHANGED <<pubvars, cfgvars, modvars, link, st_pc, lifevars, ingvars, dbvars,
                   loop_owner, stats>>

\* _reconnect_esp32 gets the lock it waited for
HealthLock ==
    /\ hm.pc = "rc_lock"
    /\ loop_owner = "none"
    /\ reconnect_lock.owner = "none"
    /\ HealthReconnectEnter(esp32_health)
    /\ UNCHANGED <<pubvars, cfgvars, modvars, link, st_pc, lifevars, ingvars, dbvars,
                   loop_owner, stats>>

\* _reconnect_esp32 after its delay: the old client is closed, a new one is made,
\* awaited and subscribed (ok: all of it worked); then the state checks
HealthReconnect ==
    /\ hm.pc = "rc_sleep"
    /\ loop_owner = "none"
    /\ now_mono >= reconnect_lock.wake_at
    /\ \E ok \in BOOLEAN :
         /\ link' = [link EXCEPT !.esp32 = ok]
         /\ src_open' = ok
         /\ stats' = reconnect_stats(stats, ok)
         /\ conn_log' = log_finish(conn_log, "esp32", ok)
         /\ HealthChecks(reconnect_finish(esp32_health, ok), link')
    /\ reconnect_lock' = FreeLock
    /\ UNCHANGED <<pubvars, cfgvars, modvars, st_pc, running, shutdown_event, signalled, main,
                   csv, handles, ingvars, dbvars, loop_owner>>

\* print_stats wakes: get_stats() of the publisher, the log lines, the loop head
StatsWake ==
    /\ st_pc = "sleep"
    /\ loop_owner = "none"
    /\ rate_limiter' = get_stats(rate_limiter, now)
    /\ st_pc' = loop_head
    /\ UNCHANGED <<now, drain, sink, sink_calls, tokens_consumed, last, next_msg,
                   cfgvars, modvars, esp32_health, dashboard_health, link, reconnect_lock, hm,
                   conn_log, lifevars, ingvars, dbvars, loop_owner, stats>>

----------------------------------------------------------------------------
(* Shutdown: _signal_handler, run and cleanup *)

\* _signal_handler: running = False; shutdown_event.set is handed to the loop
Signal ==
    /\ ~signalled
    /\ signalled' = TRUE
    /\ running' = FALSE
    /\ UNCHANGED <<pubvars, cfgvars, modvars, connvars, ingvars, dbvars, loop_owner, stats,
                   shutdown_event, main, src_open, csv, handles>>

\* the loop runs shutdown_event.set
EventSet ==
    /\ signalled
    /\ ~shutdown_event
    /\ loop_owner = "none"
    /\ shutdown_event' = TRUE
    /\ UNCHANGED <<pubvars, cfgvars, modvars, connvars, ingvars, dbvars, loop_owner, stats,
                   running, signalled, main, src_open, csv, handles>>

\* run(): self.running = True, the tasks are created (the mock loop in mock mode
\* only) and run up to their first await: a task whose loop condition is false
\* returns at once
Start ==
    /\ main.pc = "start"
    /\ running' = TRUE
    /\ LET first == IF shutdown_event THEN "exit" ELSE "sleep" IN
         /\ wr' = [wr EXCEPT !.pc = first]
         /\ rp' = [rp EXCEPT !.pc = first]
         /\ st_pc' = first
         /\ hm' = [pc |-> first, wake_at |-> now_mono + HEALTH_CHECK_INTERVAL]
         /\ mock_pc' = IF mock_mode THEN first ELSE "exit"
    /\ main' = [main EXCEPT !.pc = "wait"]
    /\ UNCHANGED <<pubvars, cfgvars, modvars, esp32_health, dashboard_health, link,
                   reconnect_lock, conn_log, stats, loop_owner, shutdown_event,
                   signalled, src_open, csv, handles, next_sample, journal,
                   message_queue, ing, buffered, rejected, db_buffer, db_buffer_lock,
                   db_retry_queue, db_retry_backoff, db_write_failures, database,
                   now_mono, snapshots>>

\* a cancellation that reaches only the tasks that sleep at their loop head
cancel_sleepers(pc) == IF pc = "sleep" THEN "exit" ELSE pc

\* t.cancel() on a pending task: CancelledError is raised at the await the task is
\* suspended in, whichever it is; no handler of the task catches it
cancel(pc) == "exit"

\* run(): asyncio.wait returns (the shutdown wait or a task is done); running = False;
\* the pending tasks are cancelled at their awaits.  A cancelled republish task
\* takes its drain_queue() call with it; a task cancelled inside a reconnect
\* releases _reconnect_lock.
MainWake ==
    /\ main.pc = "wait"
    /\ loop_owner = "none"
    /\ shutdown_event \/ wr.pc = "exit" \/ rp.pc = "exit"
         \/ hm.pc = "exit" \/ st_pc = "exit"
         \/ (mock_mode /\ mock_pc = "exit")
    /\ running' = FALSE
    /\ wr' = [wr EXCEPT !.pc = cancel(@)]
    /\ mock_pc' = cancel(mock_pc)
    /\ rp' = [rp EXCEPT !.pc = cancel(@)]
    /\ hm' = [hm EXCEPT !.pc = cancel(@)]
    /\ st_pc' = cancel(st_pc)
    /\ reconnect_lock' =
          IF \/ reconnect_lock.owner = "dashboard" /\ rp'.pc = "exit"
             \/ reconnect_lock.owner = "esp32" /\ hm'.pc = "exit"
          THEN FreeLock ELSE reconnect_lock
    /\ drain' = IF rp'.pc = "exit" THEN IdleDrain ELSE drain
    /\ main' = [main EXCEPT !.pc = "gather",
                            !.cancelled = [rp |-> rp.pc, drain |-> drain.pc,
                                           hm |-> hm.pc, wr |-> wr.pc,
                                           st |-> st_pc, mock |-> mock_pc]]
    /\ UNCHANGED <<now, rate_limiter, sink, sink_calls, tokens_consumed, last, next_msg,
                   cfgvars, modvars, esp32_health, dashboard_health, link, conn_log, stats,
                   loop_owner, shutdown_event, signalled, src_open, csv, handles,
                   next_sample, journal, message_queue, ing, buffered, rejected, db_buffer,
                   db_buffer_lock, db_retry_queue, db_retry_backoff,
                   db_write_failures, database, now_mono, snapshots>>

\* every task has returned or was cancelled
TasksStopped ==
    /\ wr.pc = "exit"
    /\ rp.pc = "exit"
    /\ hm.pc = "exit"
    /\ st_pc = "exit"
    /\ mock_pc = "exit"

\* run(): asyncio.gather(*pending) returns when every pending task is done; then the
\* finally block enters cleanup()
MainGather ==
    /\ main.pc = "gather"
    /\ loop_owner = "none"
    /\ TasksStopped
    /\ main' = [main EXCEPT !.pc = "c_lock"]
    /\ loop_owner' = "main"
    /\ UNCHANGED <<pubvars, cfgvars, modvars, connvars, ingvars, dbvars, stats, running,
                   shutdown_event, signalled, src_open, csv, handles>>

\* cleanup: "with self.db_buffer_lock:" is entered
CleanupLock ==
    /\ main.pc = "c_lock"
    /\ can_acquire(db_buffer_lock)
    /\ db_buffer_lock' = "main"
    /\ main' = [main EXCEPT !.pc = "c_copy"]
    /\ UNCHANGED <<pubvars, cfgvars, modvars, connvars, ingvars, loop_owner, stats, running,
                   shutdown_event, signalled, src_open, csv, handles, db_buffer,
                   db_retry_queue, db_retry_backoff, db_write_failures, database,
                   wr, now_mono, snapshots>>

\* cleanup: pending = list(self.db_buffer)
CleanupCopy ==
    /\ main.pc = "c_copy"
    /\ main' = [main EXCEPT !.pc = "c_clear", !.copy = db_buffer]
    /\ snapshots' = IF db_buffer = << >> THEN snapshots ELSE Append(snapshots, db_buffer)
    /\ UNCHANGED <<pubvars, cfgvars, modvars, connvars, ingvars, loop_owner, stats, running,
                   shutdown_event, signalled, src_open, csv, handles, db_buffer,
                   db_buffer_lock, db_retry_queue, db_retry_backoff,
                   db_write_failures, database, wr, now_mono>>

\* cleanup: self.db_buffer.clear(), the lock is released, pending is cut into chunks
CleanupClear ==
    /\ main.pc = "c_clear"
    /\ db_buffer' = << >>
    /\ db_buffer_lock' = "free"
    /\ main' = [main EXCEPT !.pc = "c_write", !.batches = Chunks(main.copy),
                            !.copy = << >>]
    /\ UNCHANGED <<pubvars, cfgvars, modvars, connvars, ingvars, loop_owner, stats, running,
                   shutdown_event, signalled, src_open, csv, handles, db_retry_queue,
                   db_retry_backoff, db_write_failures, database, wr, now_mono,
                   snapshots>>

\* cleanup: the final flush submits its next chunk
CleanupSubmit ==
    /\ main.pc = "c_write"
    /\ main.batches # << >>
    /\ \E rest \in {Tail(main.batches), << >>}, ok \in BOOLEAN :
         /\ WriteStep(main.batches, rest, ok)
         /\ main' = [main EXCEPT !.batches = rest]
    /\ UNCHANGED <<pubvars, cfgvars, modvars, connvars, ingvars, loop_owner, running, shutdown_event,
                   signalled, src_open, csv, handles, db_buffer, db_buffer_lock,
                   db_retry_backoff, wr, now_mono, snapshots>>

export_needed_pending_only == db_retry_queue # << >>

\* cleanup: "if self.db_write_failures > 0 or self.db_retry_queue"
export_needed == db_write_failures > 0 \/ db_retry_queue # << >>

\* cleanup: "If failures or pending retries, export full CSV for the session".
\* An export that raises (the directory or the file cannot be written) leaves the
\* try block of cleanup: the error is counted and cleanup returns.
CleanupExport ==
    /\ main.pc = "c_write"
    /\ main.batches = << >>
    /\ IF export_needed
       THEN \E raised \in BOOLEAN :
              IF raised
              THEN /\ csv' = [csv EXCEPT !.requested = TRUE]
                   /\ stats' = [stats EXCEPT !.errors = @ + 1]
                   /\ main' = [main EXCEPT !.pc = "done"]
                   /\ loop_owner' = "none"
              ELSE /\ csv' = [requested |-> TRUE, written |-> TRUE,
                              rows |-> export_csv(journal)]
                   /\ main' = [main EXCEPT !.pc = "c_close"]
                   /\ UNCHANGED <<stats, loop_owner>>
       ELSE /\ main' = [main EXCEPT !.pc = "c_close"]
            /\ UNCHANGED <<csv, stats, loop_owner>>
    /\ UNCHANGED <<pubvars, cfgvars, modvars, connvars, ingvars, dbvars, running,
                   shutdown_event, signalled, src_open, handles>>

\* cleanup: the source channel is closed (after a callback that is running has
\* returned), then the dashboard channel, the database client and the journal
CleanupClose ==
    /\ main.pc = "c_close"
    /\ ing.pc = "idle"
    /\ src_open' = FALSE
    /\ handles' = [dashboard |-> FALSE, convex |-> FALSE, journal |-> FALSE]
    /\ main' = [main EXCEPT !.pc = "done"]
    /\ loop_owner' = "none"
    /\ UNCHANGED <<pubvars, cfgvars, modvars, connvars, ingvars, dbvars, stats, running,
                   shutdown_event, signalled, csv>>

----------------------------------------------------------------------------
(* The bridge after run() has connected and started its tasks *)

\* what the tasks were doing when run() cancelled them: nothing yet
NotCancelled == [rp |-> "none", drain |-> "none", hm |-> "none", wr |-> "none",
                 st |-> "none", mock |-> "none"]

StatsInit ==
    [ messages_received    |-> 0,
      messages_republished |-> 0,
      messages_stored_db   |-> 0,
      messages_dropped     |-> 0,
      reconnect_count      |-> 0,
      errors               |-> 0 ]

\* the bridge before run() has created the tasks (started = FALSE: the connections
\* are made, running is still False), or right after it has
BridgeAt(mock, client, bounds, started) ==
    /\ lim = bounds
    /\ mock_mode = mock
    /\ convex_client = client
    /\ running = started
    /\ shutdown_event = FALSE
    /\ signalled = FALSE
    /\ loop_owner = "none"
    /\ main = [pc |-> IF started THEN "wait" ELSE "start", batches |-> << >>,
               copy |-> << >>, cancelled |-> NotCancelled]
    /\ src_open = ~mock
    /\ csv = [requested |-> FALSE, written |-> FALSE, rows |-> {}]
    /\ handles = [dashboard |-> TRUE, convex |-> client, journal |-> TRUE]
    /\ next_sample = 1
    /\ journal = << >>
    /\ message_queue = << >>
    /\ db_buffer = << >>
    /\ db_buffer_lock = "free"
    /\ db_retry_queue = << >>
    /\ db_retry_backoff = RETRY_BASE_BACKOFF
    /\ db_write_failures = 0
    /\ database = {}
    /\ stats = StatsInit
    /\ ing = [pc |-> "idle", sample |-> 0, payload |-> NoPayload]
    /\ mock_pc = IF ~mock THEN "exit" ELSE IF started THEN "sleep" ELSE "new"
    /\ rp = [pc |-> IF started THEN "sleep" ELSE "new", batch |-> << >>]
    /\ wr = [pc |-> IF started THEN "sleep" ELSE "new", batches |-> << >>,
             copy |-> << >>, all_ok |-> TRUE, next_retry_at |-> 0,
             failed_at |-> << >>, waiting_since |-> << >>]
    /\ now_mono = bounds.epoch
    /\ buffered = << >>
    /\ rejected = << >>
    /\ snapshots = << >>
    /\ esp32_health = [ConnectionHealth EXCEPT !.is_connected = ~mock]
    /\ dashboard_health = [ConnectionHealth EXCEPT !.is_connected = TRUE]
    /\ link = [esp32 |-> ~mock, dashboard |-> TRUE]
    /\ reconnect_lock = FreeLock
    /\ hm = [pc |-> IF started THEN "sleep" ELSE "new",
             wake_at |-> bounds.epoch + HEALTH_CHECK_INTERVAL]
    /\ st_pc = IF started THEN "sleep" ELSE "new"
    /\ conn_log = NoReconnects
    /\ ModulesStart

\* the bridge right after run() has created its tasks
BridgeStart(mock, client, bounds) == BridgeAt(mock, client, bounds, TRUE)

PublisherStart ==
    /\ now = 0
    /\ rate_limiter = RateLimitedPublisherInit(0)
    /\ drain = IdleDrain
    /\ sink = << >>
    /\ sink_calls = 0
    /\ tokens_consumed = 0
    /\ last = NoCall
    /\ next_msg = 1

----------------------------------------------------------------------------
(* Ingest, DB writer and shutdown *)

DBStart(faults) ==
    /\ PublisherStart
    /\ \E mock \in BOOLEAN, client \in BOOLEAN :
         BridgeStart(mock, client, [samples |-> MaxSamples, time |-> 0,
                                    mono |-> MaxMono, faults |-> faults, rejects |-> 0, epoch |-> 0])

DBInit == DBStart(0)

DBNext ==
    \/ IngestJournal
    \/ IngestPut
    \/ IngestDrop
    \/ IngestBuffer
    \/ MockTick
    \/ WriterWake
    \/ WriterSubmit
    \/ WriterRetryDone
    \/ WriterLock
    \/ WriterCopy
    \/ WriterClear
    \/ WriterFreshDone
    \/ Signal
    \/ EventSet
    \/ MainWake
    \/ MainGather
    \/ CleanupLock
    \/ CleanupCopy
    \/ CleanupClear
    \/ CleanupSubmit
    \/ CleanupExport
    \/ CleanupClose

SpecDB == DBInit /\ [][DBNext]_vars

----------------------------------------------------------------------------
(* Ingest and republish *)

FlowStart(faults) ==
    /\ PublisherStart
    /\ \E mock \in BOOLEAN :
         BridgeStart(mock, TRUE, [samples |-> MaxSamples, time |-> MaxTime,
                                  mono |-> 0, faults |-> faults, rejects |-> 0, epoch |-> 0])

FlowInit == FlowStart(0)

FlowNext ==
    \/ Tick
    \/ IngestJournal
    \/ IngestPut
    \/ IngestDrop
    \/ IngestBuffer
    \/ MockTick
    \/ RepublishWake
    \/ DrainIter
    \/ DrainWake
    \/ RepublishTake
    \/ RepublishPublish
    \/ RepublishSleep

SpecFlow == FlowInit /\ [][FlowNext]_vars

----------------------------------------------------------------------------
(* The live callback on its own, with well-formed and malformed messages *)

IngestInit ==
    /\ PublisherStart
    /\ BridgeStart(FALSE, TRUE, [samples |-> MaxSamples, time |-> 0, mono |-> 0,
                                 faults |-> 0, rejects |-> MaxRejects, epoch |-> 0])

IngestNext ==
    \/ IngestJournal
    \/ IngestReject
    \/ IngestPut
    \/ IngestDrop
    \/ IngestBuffer

SpecIngest == IngestInit /\ [][IngestNext]_vars

----------------------------------------------------------------------------
(* Connection management: the watchdog, the link checks and the reconnects of both
   channels, with a live or a mock source, the republish task and the clock *)

\* samples the source delivers in a run of the connection management
ConnSamples == 1
\* the clock of such a run stops here (seconds)
MaxConnMono == 7
\* time.monotonic() when the bridge starts; 0 is "no message yet" in ConnectionHealth
Epoch == 1

ConnInit ==
    /\ PublisherStart
    /\ \E mock \in BOOLEAN :
         BridgeStart(mock, TRUE, [samples |-> ConnSamples, time |-> 0,
                                  mono |-> MaxConnMono, faults |-> 0, rejects |-> 0,
                                  epoch |-> Epoch])

ConnNext ==
    \/ MonoTick
    \/ LinkDrop
    \/ IngestJournal
    \/ IngestPut
    \/ IngestBuffer
    \/ MockTick
    \/ HealthWake
    \/ HealthLock
    \/ HealthReconnect
    \/ RepublishWake
    \/ RepublishLock
    \/ RepublishReconnect
    \/ DrainIter
    \/ RepublishTake
    \/ RepublishPublish
    \/ RepublishSleep

SpecConn == ConnInit /\ [][ConnNext]_vars

----------------------------------------------------------------------------
(* Start and shutdown of the whole bridge: every task, the signal, run() and
   cleanup(), within the first seconds of a run.  Two kinds of run are explored.  In
   a burst the source delivers StopSamples samples before a second has passed: the
   token bucket runs dry and stays dry, the DB writer and the health monitor are
   still in their first sleep.  In a slow run the seconds pass: the health monitor
   and the DB writer wake up, links are found down, reconnects wait for their
   delays; the source is silent, so the rounds of the DB writer find nothing to
   write. *)

StopSamples == 3
StopMono == 2

StopRuns ==
    {[mock |-> m, samples |-> StopSamples, mono |-> 0] : m \in BOOLEAN}
      \cup {[mock |-> m, samples |-> 0, mono |-> StopMono] : m \in BOOLEAN}

StopInit ==
    /\ PublisherStart
    /\ \E r \in StopRuns :
         BridgeAt(r.mock, TRUE, [samples |-> r.samples, time |-> 0, mono |-> r.mono,
                                 faults |-> 0, rejects |-> 0, epoch |-> 0], FALSE)

\* the steps of run() and cleanup() that wait for nothing but the event loop
MainSteps ==
    \/ Start
    \/ MainGather
    \/ CleanupLock
    \/ CleanupCopy
    \/ CleanupClear
    \/ CleanupSubmit
    \/ CleanupExport
    \/ CleanupClose

\* one round of the DB writer that finds both the retry queue and the buffer empty:
\* synchronous code, no await
WriterRound ==
    \/ WriterLock
    \/ WriterCopy
    \/ WriterClear

\* the rest of a message callback that has begun, on the client's thread
CallbackBody ==
    \/ IngestPut
    \/ IngestDrop
    \/ IngestBuffer

StopNext ==
    \/ MonoTick
    \/ LinkDrop
    \/ WriterWake
    \/ WriterRound
    \/ HealthWake
    \/ IngestJournal
    \/ CallbackBody
    \/ MockTick
    \/ RepublishWake
    \/ DrainIter
    \/ RepublishTake
    \/ RepublishPublish
    \/ RepublishSleep
    \/ StatsWake
    \/ Signal
    \/ EventSet
    \/ MainWake
    \/ MainSteps

\* Synchronous code runs to its end, on the loop and on the callback thread.  The event
\* loop runs its ready callbacks in order of arrival, so shutdown_event.set and the
\* wake-up of asyncio.wait are not passed over for ever.  Nothing is assumed of the
\* sleeps and reconnects of the tasks.
StopFairness ==
    /\ WF_vars(MainSteps)
    /\ WF_vars(WriterRound)
    /\ WF_vars(CallbackBody)
    /\ SF_vars(EventSet)
    /\ SF_vars(MainWake)

SpecStop == StopInit /\ [][StopNext]_vars /\ StopFairness

----------------------------------------------------------------------------
(* One rolling window under any sequence of pushes and resets *)

\* no source, no clock: only the module is exercised
ModuleBounds == [samples |-> 0, time |-> 0, mono |-> 0, faults |-> 0, rejects |-> 0, calcs |-> 0, gens |-> 0, appends |-> 0,
                 orders |-> {},
                 epoch |-> 0, detects |-> 0, feed |-> {}]

WindowInit ==
    /\ PublisherStart
    /\ BridgeStart(FALSE, TRUE, ModuleBounds)

WindowNext ==
    \/ WindowPush
    \/ WindowReset

SpecWindow == WindowInit /\ [][WindowNext]_vars

----------------------------------------------------------------------------
(* The detector fed with voltage readings inside and outside the legal range *)

\* below the range, three legal values (two of them close together), above the range
VoltageReadings == {20, 48, 49, 59, 80}
VoltageDetects == 4

VoltageInit ==
    /\ PublisherStart
    /\ BridgeStart(FALSE, TRUE,
                   [ModuleBounds EXCEPT !.detects = VoltageDetects,
                                        !.feed = {[voltage_v |-> v] : v \in VoltageReadings}])

VoltageNext == Detect

SpecVoltage == VoltageInit /\ [][VoltageNext]_vars

----------------------------------------------------------------------------
(* The detector fed with repeating and changing values of two rolling fields; one
   sample lacks gyro_x, and a negative speed is reported by the speed check *)

StuckFeed ==
    {[gyro_x |-> g, speed_ms |-> v] : g \in {1, 2}, v \in {-1, 3}}
       \cup {[speed_ms |-> 3]}
StuckDetects == 4

StuckInit ==
    /\ PublisherStart
    /\ BridgeStart(FALSE, TRUE,
                   [ModuleBounds EXCEPT !.detects = StuckDetects, !.feed = StuckFeed])

StuckNext == Detect

SpecStuck == StuckInit /\ [][StuckNext]_vars

----------------------------------------------------------------------------
(* The detector fed with the two cumulative fields, as every sample carries them
   after the defaults of the normalizer *)

EnergyReadings == {900, 1000, 60000}
DistanceReadings == {10, 20, 200}
CumulativeDetects == 3

CumulativeInit ==
    /\ PublisherStart
    /\ BridgeStart(FALSE, TRUE,
                   [ModuleBounds EXCEPT
                      !.detects = CumulativeDetects,
                      !.feed = {[energy_j |-> e, distance_m |-> d] :
                                  e \in EnergyReadings, d \in DistanceReadings}])

CumulativeNext == Detect

SpecCumulative == CumulativeInit /\ [][CumulativeNext]_vars

----------------------------------------------------------------------------
(* The detector fed with samples on which the checks of several fields answer, with
   confidences below, at and above 0.9 *)

SeverityFeed ==
    {[voltage_v |-> v, gyro_x |-> g, speed_ms |-> sp, energy_j |-> e, distance_m |-> d] :
       v \in {48, 80}, g \in {0, 1500, 1800}, sp \in {-1, 3},
       e \in {0, 60000}, d \in {0, 200}}
SeverityDetects == 2

SeverityInit ==
    /\ PublisherStart
    /\ BridgeStart(FALSE, TRUE,
                   [ModuleBounds EXCEPT !.detects = SeverityDetects, !.feed = SeverityFeed])

SeverityNext == Detect

SpecSeverity == SeverityInit /\ [][SeverityNext]_vars

----------------------------------------------------------------------------
(* The calculator fed with quiet samples and with spikes of current and of
   acceleration, long enough for more peaks than it stores *)

PeakFeed ==
    {[current_a |-> 1, accel_x |-> 1], [current_a |-> 10, accel_x |-> 1],
     [current_a |-> 1, accel_x |-> 10]}
MaxCalcs == 18

PeakInit ==
    /\ PublisherStart
    /\ BridgeStart(FALSE, TRUE, [ModuleBounds EXCEPT !.calcs = MaxCalcs, !.feed = PeakFeed])

PeakNext == Calculate

SpecPeaks == PeakInit /\ [][PeakNext]_vars

----------------------------------------------------------------------------
(* The mock generator called over and over, with stalls, bursts and single drops *)

MaxGens == 13

GenInit ==
    /\ PublisherStart
    /\ BridgeStart(TRUE, TRUE, [ModuleBounds EXCEPT !.gens = MaxGens])

GenNext == Generate

SpecGen == GenInit /\ [][GenNext]_vars

----------------------------------------------------------------------------
(* A journal that is appended to and exported, with a write that may raise *)

JournalRecords ==
    {[message_id |-> i, speed_ms |-> v] : i \in 1..2, v \in {0, 3}}
       \cup {[message_id |-> i] : i \in 1..2}
FieldOrders == {<<"message_id", "speed_ms">>, <<"speed_ms", "altitude", "message_id">>}
MaxAppends == 3

JournalInit ==
    /\ PublisherStart
    /\ BridgeStart(FALSE, TRUE,
                   [ModuleBounds EXCEPT !.appends = MaxAppends, !.faults = MaxFaults,
                                        !.feed = JournalRecords, !.orders = FieldOrders])

JournalNext == JournalAppend \/ JournalExport

SpecJournal == JournalInit /\ [][JournalNext]_vars

----------------------------------------------------------------------------
(* The live callback on samples of which some carry a string where a number is
   expected.  Samples on which the normalizer raises outside its two try blocks (a
   string voltage or current with no power, a string acceleration with no
   total_acceleration, a string percentage with a zero 0..1 form) end in the
   callback's outer handler and are not fed. *)

FailingSample(v) == [voltage_v |-> v, current_a |-> 5, speed_ms |-> 3]
FailingFeed ==
    UNION {{FailingSample(v),
            FailingSample(v) @@ [accel_x |-> 0, total_acceleration |-> 1,
                                 text |-> {"accel_x"}],
            FailingSample(v) @@ [brake_pct |-> 0, brake |-> 50000, text |-> {"brake_pct"}],
            FailingSample(v) @@ [energy_j |-> 0, text |-> {"energy_j"}]} : v \in {48, 80}}

NormInit ==
    /\ PublisherStart
    /\ BridgeStart(FALSE, TRUE, [ModuleBounds EXCEPT !.samples = MaxSamples,
                                                      !.feed = FailingFeed])

NormNext ==
    \/ IngestJournal
    \/ IngestPut
    \/ IngestDrop
    \/ IngestBuffer

SpecNorm == NormInit /\ [][NormNext]_vars

----------------------------------------------------------------------------
(* The live callback on samples with every combination of driver inputs *)

InputSamples == 2
\* percentages in 0.001 %: missing, 0, 50 %, 33.337 %, 150 %
Percentages == {<< >>, <<0>>, <<50000>>, <<33337>>, <<150000>>}
\* 0..1 forms in 0.00001: missing, 0, 0.33337, 0.5, 0.9, 1.5, -0.5
Units == {<< >>, <<0>>, <<33337>>, <<50000>>, <<90000>>, <<150000>>, <<-50000>>}

\* a record with the field if the input carries it
Carried(field, opt) == IF opt = << >> THEN << >> ELSE [f \in {field} |-> opt[1]]

DriverFeed ==
    {FailingSample(48) @@ Carried("throttle_pct", p) @@ Carried("throttle", u)
       : p \in Percentages, u \in Units}
    \cup {FailingSample(48) @@ Carried("brake_pct", p) @@ Carried("brake", u)
            : p \in Percentages, u \in Units}

InputInit ==
    /\ PublisherStart
    /\ BridgeStart(FALSE, TRUE, [ModuleBounds EXCEPT !.samples = InputSamples,
                                                      !.feed = DriverFeed])

InputNext ==
    \/ IngestJournal
    \/ IngestPut
    \/ IngestBuffer

SpecInput == InputInit /\ [][InputNext]_vars

----------------------------------------------------------------------------
(* The two downstream paths of a sample, one at a time.  The republish path and
   the DB path share the ingest side and nothing else that carries samples, so
   a run of the bridge is seen here once with the republish task and the
   publisher's clock moving, once with the DB writer and shutdown moving; in
   both, journal writes may fail. *)

PathsInit == \E faults \in 0..MaxFaults : DBStart(faults) \/ FlowStart(faults)

PathsNext ==
    \/ lim.time = 0 /\ DBNext
    \/ lim.mono = 0 /\ FlowNext

SpecPaths == PathsInit /\ [][PathsNext]_vars

----------------------------------------------------------------------------
(* The publisher on its own, under any sequence of calls and time gaps *)

PubInit ==
    /\ PublisherStart
    /\ BridgeStart(FALSE, TRUE, [samples |-> 0, time |-> MaxTime, mono |-> 0,
                                 faults |-> 0, rejects |-> 0, epoch |-> 0])

PubNext ==
    \/ Tick
    \/ CallPublish
    \/ CallQueueMessage
    \/ CallGetStats
    \/ DrainStart
    \/ DrainIter
    \/ DrainWake

SpecPub == PubInit /\ [][PubNext]_vars

----------------------------------------------------------------------------
(* Properties *)

\* what a publisher call found: the bucket after the refill of the call
TokenAvailable == last.before.tokens >= ONE_TOKEN

\* the last call was publish(channel, event, msg) without force_queue
LastPublish == last.op = "publish" /\ ~last.force_queue

\* the last call tried to enqueue its message on the overflow queue
LastEnqueueAttempt ==
    \/ last.op = "queue_message"
    \/ last.op = "publish" /\ (last.force_queue \/ ~last.called \/ ~last.sink_ok)

\* C1: when cleanup has finished, every sample that ingest accepted and journaled is
\* stored in the database or contained in the CSV export, whatever the interleaving
\* of the live callback with shutdown.
C1_NoDataLost ==
    main.pc = "done" =>
        \A s \in Range(buffered) \cap Range(journal) :
            s \in database \/ (csv.written /\ s \in csv.rows)

\* C2: every sink call of the publisher (from publish or drain_queue) has taken one
\* whole token, so the sink calls up to time t never exceed burst + rate * t.
C2_RateCap ==
    /\ sink_calls <= tokens_consumed
    /\ sink_calls * ONE_TOKEN
           <= PUBLISH_BURST_CAPACITY * ONE_TOKEN + PUBLISH_RATE_LIMIT * now

\* more sink calls than the burst, the last of them made by drain_queue
C2_Witness ==
    /\ sink_calls > PUBLISH_BURST_CAPACITY
    /\ last.op = "drain_queue"
    /\ last.ret > 0

\* the samples held anywhere downstream of the journal
Downstream ==
    Range(message_queue) \cup Range(rp.batch) \cup Range(rate_limiter.queue)
        \cup Range(sink) \cup Range(db_buffer) \cup Range(wr.copy)
        \cup Range(Flatten(wr.batches)) \cup Range(main.copy)
        \cup Range(Flatten(main.batches)) \cup Range(Flatten(db_retry_queue))
        \cup database \cup csv.rows

\* C3: journal first: every sample found in the republish queue, the publisher
\* overflow queue, the DB buffer, the retry queue, the sink or the database is
\* already in the journal.
C3_JournalFirst == Downstream \subseteq Range(journal)

\* where a record appended to the DB buffer may be
DBPlaces ==
    Range(db_buffer) \cup Range(wr.copy) \cup Range(Flatten(wr.batches))
        \cup Range(main.copy) \cup Range(Flatten(main.batches))
        \cup Range(Flatten(db_retry_queue)) \cup database

\* the batches whose submission is under way
Submitting == IF main.pc = "c_write" THEN main.batches ELSE wr.batches

\* C4: at-least-once: every record appended to the DB buffer is in the buffer, in a
\* snapshot or chunk being submitted, in the retry queue or stored; a chunk whose
\* submission fails is appended intact to the retry queue, however often it failed.
C4_AtLeastOnce ==
    /\ [](Range(buffered) \subseteq DBPlaces)
    /\ [][db_write_failures' > db_write_failures =>
            db_retry_queue' = IF convex_client
                                 THEN Append(db_retry_queue, Head(Submitting))
                                 ELSE db_retry_queue \o Submitting]_vars

\* a batch taken from the retry queue failed again and is back on the retry queue
C4_Witness ==
    /\ wr.pc = "retry_write"
    /\ db_write_failures >= 2
    /\ db_retry_queue # << >>
    /\ database = {}

\* C5: snapshot-and-clear is atomic for ingest: outside a snapshot-and-clear, every
\* sample appended to the DB buffer is in the buffer or in exactly one snapshot,
\* never in none and never in two.
C5_SnapshotAtomic ==
    (wr.pc # "flush_clear" /\ main.pc # "c_clear") =>
        \A s \in Range(buffered) : Count(db_buffer \o Flatten(snapshots), s) = 1

\* the live callback waits for the lock while the writer is between copy and clear
C5_Witness ==
    /\ wr.pc = "flush_clear"
    /\ wr.copy # << >>
    /\ ing.pc = "buffer"
    /\ db_buffer_lock = "writer"

\* C6 as stated: publish sends iff a token is available and takes it; after a failed
\* send, or without a token, the message is enqueued and publish returns success.
C6_PublishAlwaysSucceeds ==
    LastPublish =>
        /\ last.called <=> TokenAvailable
        /\ last.token <=> TokenAvailable
        /\ (~TokenAvailable \/ ~last.sink_ok) =>
              /\ last.ret
              /\ last.after.queue = Append(last.before.queue, last.msg)

\* C6, amended: publish sends iff a token is available and takes exactly that token;
\* a sent message is not enqueued; after a failed send, or without a token (no sink
\* call), the message is enqueued and publish returns success unless the overflow
\* queue is full: then the message is dropped and publish returns failure.
C6_Publish ==
    LastPublish =>
        /\ last.called <=> TokenAvailable
        /\ last.token <=> TokenAvailable
        /\ last.after.tokens =
               last.before.tokens - (IF TokenAvailable THEN ONE_TOKEN ELSE 0)
        /\ last.delivered <=> (TokenAvailable /\ last.sink_ok)
        /\ last.delivered => last.ret /\ last.after.queue = last.before.queue
        /\ (~TokenAvailable \/ ~last.sink_ok) =>
              IF Len(last.before.queue) < PUBLISH_QUEUE_MAX_SIZE
                 THEN /\ last.ret
                      /\ last.after.queue = Append(last.before.queue, last.msg)
                 ELSE /\ ~last.ret
                      /\ last.after.queue = last.before.queue

\* a send failed while the overflow queue was full
C6_Witness ==
    /\ LastPublish
    /\ last.called
    /\ ~last.sink_ok
    /\ Len(last.before.queue) = PUBLISH_QUEUE_MAX_SIZE
    /\ ~last.ret

\* C7: an enqueue attempt on a full overflow queue drops the new message, returns
\* failure, adds exactly one to messages_dropped and leaves the queue as it was.
C7_FullQueueDrops ==
    (LastEnqueueAttempt /\ Len(last.before.queue) = PUBLISH_QUEUE_MAX_SIZE) =>
        /\ ~last.ret
        /\ last.after.queue = last.before.queue
        /\ last.after.stats.messages_dropped = last.before.stats.messages_dropped + 1

\* publish found no token and a full queue
C7_Witness ==
    /\ LastPublish
    /\ ~TokenAvailable
    /\ Len(last.before.queue) = PUBLISH_QUEUE_MAX_SIZE
    /\ rate_limiter.stats.messages_dropped > 0

\* C8: the bucket always holds between 0 and burst_capacity tokens.
C8_TokensInRange ==
    /\ rate_limiter.tokens >= 0
    /\ rate_limiter.tokens <= PUBLISH_BURST_CAPACITY * ONE_TOKEN

\* get_stats refilled a bucket from which tokens had been taken, after a gap long
\* enough to overfill it
C8_Witness ==
    /\ last.op = "get_stats"
    /\ last.before.tokens > 0
    /\ last.before.tokens + (now - last.before.last_refill) * PUBLISH_RATE_LIMIT
           > PUBLISH_BURST_CAPACITY * ONE_TOKEN
    /\ tokens_consumed > 0

C10_BackoffRule ==
    [][(wr.pc \in {"retry_write", "fresh_write"} /\ wr.batches = << >>
            /\ wr'.pc # wr.pc) =>
          db_retry_backoff' = IF wr.all_ok
                                 THEN RETRY_BASE_BACKOFF
                                 ELSE Min(2 * db_retry_backoff, RETRY_BACKOFF_MAX)]_vars

\* C11: on shutdown the final flush of the DB buffer comes first; then the whole
\* journal is exported as CSV if and only if the retry queue is non-empty or a
\* DB write failed during the session, even one that was retried successfully.
C11_ExportIff ==
    /\ [](csv.requested => main.pc \in {"c_close", "done"})
    /\ [][(main.pc = "c_write" /\ main'.pc \in {"c_close", "done"}) =>
            /\ main.batches = << >>
            /\ csv'.requested <=> (db_write_failures > 0 \/ db_retry_queue # << >>)
            /\ csv'.written => csv'.rows = Range(journal)]_vars

C11_Witness ==
    /\ main.pc = "done"
    /\ csv.written
    /\ csv.rows # {}
    /\ db_retry_queue = << >>
    /\ db_write_failures > 0


\* C19: every chunk handed to the database by a flush has between 1 and
\* MAX_BATCH_SIZE records, and the chunks of one flush, in the order they are
\* submitted, concatenate to the snapshot of the DB buffer: no record is omitted,
\* duplicated or reordered.
ChunkSized(b) == Len(b) \in 1..MAX_BATCH_SIZE

C19_Chunks ==
    /\ [](\A b \in Range(wr.batches) \cup Range(main.batches)
                     \cup Range(db_retry_queue) : ChunkSized(b))
    /\ [][/\ (wr.pc = "flush_clear" /\ wr'.pc = "fresh_write") =>
                /\ wr.copy = snapshots[Len(snapshots)]
                /\ Flatten(wr'.batches) = wr.copy
          /\ (main.pc = "c_clear" /\ main'.pc = "c_write" /\ main.copy # << >>) =>
                /\ main.copy = snapshots[Len(snapshots)]
                /\ Flatten(main'.batches) = main.copy
          /\ (convex_client /\ wr.pc = "fresh_write" /\ wr'.batches # wr.batches) =>
                /\ wr'.batches = Tail(wr.batches)
                /\ database' \subseteq database \cup Range(Head(wr.batches))
          /\ (convex_client /\ main.pc = "c_write" /\ main'.batches # main.batches) =>
                /\ main'.batches = Tail(main.batches)
                /\ database' \subseteq database \cup Range(Head(main.batches))]_vars

C19_Witness ==
    /\ wr.pc = "fresh_write"
    /\ wr.batches = << >>
    /\ convex_client
    /\ snapshots # << >>
    /\ Len(snapshots[Len(snapshots)]) > MAX_BATCH_SIZE
    /\ Range(snapshots[Len(snapshots)]) \subseteq database

\* C12: the shutdown path always runs the channel close and the journal close:
\* when cleanup has returned, also after a final flush or a CSV export that
\* failed, the source channel, the dashboard channel and the journal are closed.
C12_CleanupCloses ==
    main.pc = "done" => ~src_open /\ ~handles.dashboard /\ ~handles.journal

\* C20: a live message that cannot be parsed, or that has none of speed_ms,
\* voltage_v, current_a, is counted as an error and dropped: nothing goes to the
\* journal, the republish queue or the DB buffer, messages_received is unchanged,
\* and the callback is ready for the next message.
Malformed(payload) ==
    \/ payload.body \notin {"object", "binary"}
    \/ payload.form \notin {"bytes", "str", "dict"}
    \/ payload.fields \cap {"speed_ms", "voltage_v", "current_a"} = {}

C20_InvalidDropped ==
    [][(/\ ~mock_mode /\ ing.pc = "idle"
        /\ (rejected' # rejected \/ next_sample' # next_sample)
        /\ Malformed(ing'.payload)) =>
          /\ stats' = [stats EXCEPT !.errors = @ + 1]
          /\ journal' = journal
          /\ message_queue' = message_queue
          /\ db_buffer' = db_buffer
          /\ ing'.pc = "idle"
          /\ src_open']_vars

C20_Witness ==
    /\ rejected # << >>
    /\ rejected[1] = 1
    /\ 1 \in Range(buffered)
    /\ 1 \in Range(journal)
    /\ stats.messages_received = 1
    /\ stats.errors = Len(rejected)

\* C15: reconnect_attempts of a channel stays within 0..RECONNECT_MAX_ATTEMPTS, and a
\* reconnect call made at the cap fails fast: no counter changes, no delay is slept
\* (the lock is free again at once) and no connection is attempted.
C15_ReconnectCap ==
    /\ [](\A h \in {esp32_health, dashboard_health} :
              h.reconnect_attempts \in 0..RECONNECT_MAX_ATTEMPTS)
    /\ [][/\ (/\ conn_log'.calls.esp32 # conn_log.calls.esp32
              /\ esp32_health.reconnect_attempts >= RECONNECT_MAX_ATTEMPTS) =>
                /\ esp32_health'.reconnect_attempts = esp32_health.reconnect_attempts
                /\ esp32_health'.total_reconnects = esp32_health.total_reconnects
                /\ reconnect_lock'.owner = "none"
                /\ hm'.pc \in {"sleep", "exit"}
                /\ UNCHANGED <<link, src_open, stats, now_mono>>
                /\ conn_log'.delays = conn_log.delays
          /\ (/\ conn_log'.calls.dashboard # conn_log.calls.dashboard
              /\ dashboard_health.reconnect_attempts >= RECONNECT_MAX_ATTEMPTS) =>
                /\ dashboard_health' = dashboard_health
                /\ reconnect_lock'.owner = "none"
                /\ rp'.pc = "sleep"
                /\ UNCHANGED <<link, src_open, stats, now_mono>>
                /\ conn_log'.delays = conn_log.delays]_vars

C15_Witness ==
    /\ esp32_health.reconnect_attempts = RECONNECT_MAX_ATTEMPTS
    /\ dashboard_health.reconnect_attempts = RECONNECT_MAX_ATTEMPTS
    /\ conn_log.calls.esp32 = 0
    /\ conn_log.calls.dashboard = 0
    /\ Len(conn_log.delays.esp32) = RECONNECT_MAX_ATTEMPTS
    /\ Len(conn_log.delays.dashboard) = RECONNECT_MAX_ATTEMPTS
    /\ reconnect_lock.owner = "none"
    /\ hm.pc = "sleep"
    /\ rp.pc = "sleep"

\* C14: the delays slept before the consecutive failed reconnect attempts of a channel
\* are base, 2*base, 4*base, ... clipped at RETRY_BACKOFF_MAX: the k-th attempt after
\* a successful connection waits min(RECONNECT_BASE_DELAY * 2^(k-1), RETRY_BACKOFF_MAX).
C14_GeometricDelays ==
    \A ch \in Channels : \A k \in 1..Len(conn_log.delays[ch]) :
        conn_log.delays[ch][k] =
            Min(RECONNECT_BASE_DELAY * (2 ^ (k - 1)), RETRY_BACKOFF_MAX)

\* C16: total_reconnects of a channel is the number of its successful reconnects: a
\* failed attempt leaves it alone, a success adds one and zeroes reconnect_attempts.
C16_TotalCountsSuccesses ==
    /\ esp32_health.total_reconnects = conn_log.successes.esp32
    /\ dashboard_health.total_reconnects = conn_log.successes.dashboard

\* C17: once the reconnect that the watchdog triggered for a silence has succeeded,
\* later health checks trigger no further source reconnect until a new message has
\* arrived and the source has gone stale again.
C17_OneReconnectPerSilence ==
    [][(conn_log'.calls.esp32 # conn_log.calls.esp32) => ~conn_log.healed]_vars

\* C18: in the republish task a failed send to the sink marks the sink as
\* disconnected (dashboard is_connected becomes false) and re-enqueues the message.
C18_SendFailureDisconnects ==
    [][(/\ rp.pc = "publish"
        /\ rp'.batch # rp.batch
        /\ last'.op = "publish" /\ last'.called /\ ~last'.sink_ok) =>
          /\ ~dashboard_health'.is_connected
          /\ last'.msg \in Range(rate_limiter'.queue)]_vars

\* the bridge has stopped: running is false, the shutdown condition is set, every
\* task is done and cleanup() has returned
Stopped ==
    /\ ~running
    /\ shutdown_event
    /\ TasksStopped
    /\ main.pc = "done"

InCleanup == main.pc \in {"c_lock", "c_copy", "c_clear", "c_write", "c_close", "done"}

\* C13: a shutdown signal sets running to false at once; after it the shutdown
\* condition is set, every task (republish, DB writer, stats, health monitor, mock
\* loop) stops and cleanup completes, whatever the tasks were doing; cleanup does not
\* begin while a task is still alive
C13_SignalStopsAll ==
    /\ signalled ~> Stopped
    /\ [](InCleanup => TasksStopped)
    /\ [][(signalled' /\ ~signalled) => ~running']_vars

\* stopped after a signal that found the republish task inside a drain that sleeps
\* for want of a token, and the DB writer, the health monitor and the stats task in
\* their sleeps
C13_Witness ==
    /\ Stopped
    /\ signalled
    /\ main.cancelled.rp = "drain"
    /\ main.cancelled.drain = "sleep"
    /\ main.cancelled.hm = "sleep"
    /\ main.cancelled.wr = "sleep"
    /\ main.cancelled.st = "sleep"

\* C26: a RollingWindow of capacity N keeps 0 <= count <= N and index = (pushes since
\* the last reset) mod N; count is the number of pushes up to N and N from then on;
\* while count > 0, last_n(1) is the value pushed last
C26_WindowCounts ==
    /\ window.count \in 0..window.size
    /\ window.index = window_log.pushes % window.size
    /\ window_log.pushes <= window.size => window.count = window_log.pushes
    /\ window_log.pushes >= window.size => window.count = window.size
    /\ window.count > 0 => last_n(window, 1) = <<window_log.last>>

\* the window has wrapped around: more than N pushes, the write index inside the buffer
C26_Witness ==
    /\ window_log.pushes > window.size
    /\ window.index > 0
    /\ window.count = window.size
    /\ last_n(window, 1) = <<window_log.last>>
    /\ window.buffer[window.index] # window_log.last

\* detect() reported the field of its i-th sample with this reason and confidence
Reported(i, field, reason, c) ==
    /\ detected[i].out # << >>
    /\ field \in detected[i].out[1].flagged_fields
    /\ detected[i].out[1].reasons[field] = reason
    /\ detected[i].out[1].confidence[field] = c

\* the i-th sample ends a run of at least n samples with the same value of the field
SameRun(i, field, n) ==
    /\ i >= n
    /\ \A j \in (i - n + 1)..i :
         /\ field \in DOMAIN detected[j].data
         /\ detected[j].data[field] = detected[i].data[field]

\* C25: whatever came before, a sample whose voltage_v is outside [voltage_min,
\* voltage_max] is reported with voltage_v flagged, reason ABSOLUTE_BOUND, confidence
\* 1.0 and severity critical; no later check of the call changes that
C25_VoltageBound ==
    \A i \in 1..Len(detected) :
       LET data == detected[i].data IN
       ("voltage_v" \in DOMAIN data
          /\ (data["voltage_v"] < VOLTAGE_MIN \/ data["voltage_v"] > VOLTAGE_MAX))
       => /\ Reported(i, "voltage_v", "absolute_bound", Certain)
          /\ detected[i].out[1].severity = "critical"

\* an out-of-range voltage that is also stuck: the same reading STUCK_SENSOR_COUNT + 1
\* times in a row
C25_Witness ==
    \E i \in 1..Len(detected) :
       /\ detected[i].data["voltage_v"] > VOLTAGE_MAX
       /\ SameRun(i, "voltage_v", STUCK_SENSOR_COUNT + 1)
       /\ Reported(i, "voltage_v", "absolute_bound", Certain)

\* the samples given to detect() that carry the field, in order
Carrying(field) == SelectSeq(detected, LAMBDA d : field \in DOMAIN d.data)

\* the number of samples up to the k-th of seq, without a gap, that have the k-th's
\* value of the field
RECURSIVE RunLength(_, _, _)
RunLength(seq, k, field) ==
    IF k > 1 /\ seq[k - 1].data[field] = seq[k].data[field]
    THEN RunLength(seq, k - 1, field) + 1
    ELSE 1

\* C23: per rolling field the detector counts the consecutive samples whose value
\* equals the stored one and starts again at 0 on a different value; the field is
\* reported STUCK_SENSOR on the (K+1)-th sample of a run of identical values and on
\* every later one, never earlier, unless an earlier check reported the field
C23_StuckSensor ==
    \A field \in ROLLING_FIELDS :
       LET seq == Carrying(field) IN
       /\ \A k \in 1..Len(seq) :
            LET run == RunLength(seq, k, field)
                stuck == /\ seq[k].out # << >>
                         /\ field \in seq[k].out[1].flagged_fields
                         /\ seq[k].out[1].reasons[field] = "stuck_sensor" IN
            /\ stuck => run >= STUCK_SENSOR_COUNT + 1
            /\ run >= STUCK_SENSOR_COUNT + 1
                 => seq[k].out # << >> /\ field \in seq[k].out[1].flagged_fields
       /\ seq # << >> =>
            /\ detector.stuck_counters[field] = RunLength(seq, Len(seq), field) - 1
            /\ detector.last_values[field] = seq[Len(seq)].data[field]
       /\ seq = << >> => field \notin DOMAIN detector.stuck_counters

\* gyro_x is reported stuck on exactly the (K+1)-th sample of a run during which the
\* speed changed, and not on the sample before
C23_Witness ==
    LET seq == Carrying("gyro_x") IN
    \E k \in 2..Len(seq) :
       /\ RunLength(seq, k, "gyro_x") = STUCK_SENSOR_COUNT + 1
       /\ seq[k].out # << >>
       /\ seq[k].out[1].reasons["gyro_x"] = "stuck_sensor"
       /\ seq[k - 1].out = << >>
       /\ seq[k - 1].data["speed_ms"] # seq[k].data["speed_ms"]

\* C24: a sample whose energy_j (distance_m) is lower than that of the sample just
\* before it is reported on that field with reason NON_MONOTONIC and confidence 1.0,
\* so among the samples not reported so each value is >= the one before
C24_NonMonotonicFlagged ==
    \A i \in 2..Len(detected) : \A field \in {"energy_j", "distance_m"} :
       /\ detected[i].data[field] < detected[i - 1].data[field]
            => Reported(i, field, "non_monotonic", Certain)
       /\ ~Reported(i, field, "non_monotonic", Certain)
            => detected[i].data[field] >= detected[i - 1].data[field]

\* energy_j 1000 and then 900 while distance_m goes up: the second sample is reported
\* on energy_j alone, and a third sample is compared with the 900
C24_Witness ==
    /\ Len(detected) = 3
    /\ detected[1].data["energy_j"] = 1000
    /\ detected[2].data["energy_j"] = 900
    /\ detected[2].data["distance_m"] > detected[1].data["distance_m"]
    /\ Reported(2, "energy_j", "non_monotonic", Certain)
    /\ detected[2].out[1].flagged_fields = {"energy_j"}
    /\ detected[3].data["energy_j"] = 1000
    /\ detected[3].out = << >>
    /\ detector.last_energy = Some(1000)

\* the record returned for the i-th sample has this severity
Severity(i, sev) == detected[i].out # << >> /\ detected[i].out[1].severity = sev

\* C22: every record detect() returns has a non-empty flagged set, a confidence per
\* flagged field and one severity: critical if voltage_v, current_a or power_w is
\* flagged, otherwise warning if at least 3 fields are flagged, otherwise warning if a
\* confidence is > 0.9, otherwise info; a sample on which no check answers gets no record
C22_SeverityRule ==
    \A i \in 1..Len(detected) :
       LET data == detected[i].data
           out == detected[i].out IN
       /\ out # << >> =>
            LET flagged == out[1].flagged_fields
                confidence == out[1].confidence
                critical == flagged \cap {"voltage_v", "current_a", "power_w"} # {}
                many == Cardinality(flagged) >= 3
                sure == \E f \in flagged : above_09(confidence[f]) IN
            /\ flagged # {}
            /\ DOMAIN confidence = flagged
            /\ DOMAIN out[1].reasons = flagged
            /\ out[1].severity \in {"info", "warning", "critical"}
            /\ critical => out[1].severity = "critical"
            /\ ~critical /\ many => out[1].severity = "warning"
            /\ ~critical /\ ~many /\ sure => out[1].severity = "warning"
            /\ ~critical /\ ~many /\ ~sure => out[1].severity = "info"
       /\ (i = 1 /\ data["voltage_v"] = 48 /\ data["speed_ms"] = 3) => out = << >>
       /\ data["voltage_v"] = 80 => out # << >>
       /\ data["speed_ms"] = -1 => out # << >>

\* three fields flagged, none of them critical and none with a confidence above 0.9:
\* the severity is warning by the number of fields
C22_Witness ==
    /\ Len(detected) = 2
    /\ detected[1].out = << >>
    /\ detected[2].out # << >>
    /\ detected[2].out[1].flagged_fields = {"gyro_x", "energy_j", "distance_m"}
    /\ \A f \in detected[2].out[1].flagged_fields :
          ~above_09(detected[2].out[1].confidence[f])
    /\ detected[2].out[1].severity = "warning"

\* cases of the rule that the runs reach: one field at exactly 0.9 (info), one field at
\* 1.0 (warning), a critical field among three
C22_AtThreshold ==
    /\ Len(detected) = 2
    /\ detected[2].out # << >>
    /\ detected[2].out[1].flagged_fields = {"gyro_x"}
    /\ LET c == detected[2].out[1].confidence["gyro_x"] IN
         ~c.root /\ 10 * c.num = 9 * c.den
    /\ Severity(2, "info")

C22_OneSure ==
    /\ Len(detected) = 1
    /\ detected[1].out # << >>
    /\ detected[1].out[1].flagged_fields = {"speed_ms"}
    /\ Severity(1, "warning")

C22_CriticalAmongMany ==
    /\ Len(detected) = 2
    /\ detected[2].out # << >>
    /\ Cardinality(detected[2].out[1].flagged_fields) >= 3
    /\ Severity(2, "critical")

\* the calculator keeps the last MAX_PEAKS_STORED peaks it detected, and the result of
\* a call carries the last PEAKS_REPORTED of them
C29_Retained ==
    /\ calculator.current_peaks = calc_log.current.recent
    /\ calculator.acceleration_peaks = calc_log.acceleration.recent
    /\ Len(calculator.current_peaks) <= MAX_PEAKS_STORED
    /\ Len(calculator.acceleration_peaks) <= MAX_PEAKS_STORED
    /\ calc_log.out # << >> =>
         /\ calc_log.out[1].current_peaks = LastOf(calc_log.current.recent, PEAKS_REPORTED)
         /\ calc_log.out[1].acceleration_peaks
              = LastOf(calc_log.acceleration.recent, PEAKS_REPORTED)

\* C29: the calculator keeps at most the MAX_PEAKS_STORED most recent peaks of current
\* and of acceleration, a result carries at most the PEAKS_REPORTED most recent ones,
\* and current_peak_count / acceleration_peak_count of a result is the number of peaks
\* detected so far in the session, also when that is more than MAX_PEAKS_STORED
C29_PeakCount ==
    /\ C29_Retained
    /\ calc_log.out # << >> =>
         /\ calc_log.out[1].current_peak_count = calc_log.current.count
         /\ calc_log.out[1].acceleration_peak_count = calc_log.acceleration.count

\* more peaks of current detected than the calculator stores
C29_ManyPeaks ==
    /\ calc_log.current.count > MAX_PEAKS_STORED
    /\ calc_log.out # << >>

\* C30: the calls of generate() that are not stalled and return None because of one
\* burst, the call that started the burst included, are between 3 and 10: never more
\* than 10, and at least 3 once the burst is over
C30_BurstLength ==
    /\ gen_log.burst_run <= BURST_MAX
    /\ (gen_log.burst_run > 0 /\ mock_generator.burst_drop_count = 0)
         => gen_log.burst_run >= BURST_MIN

\* what the generator does: the burst drops the call that starts it and as many
\* further calls as it drew
C30_OneMoreThanDrawn ==
    gen_log.burst_run > 0 =>
       gen_log.burst_run = 1 + gen_log.drawn - mock_generator.burst_drop_count

\* a burst that drew 10 is over after 11 dropped calls, with a stall in between
C30_LongestBurst ==
    /\ gen_log.drawn = BURST_MAX
    /\ mock_generator.burst_drop_count = 0
    /\ gen_log.burst_run = BURST_MAX + 1
    /\ gen_log.calls > gen_log.burst_run

\* seq is a proper prefix of longer
GrownFrom(seq, longer) ==
    Len(longer) > Len(seq) /\ SubSeq(longer, 1, Len(seq)) = seq

\* the latest export is one header and one row per record of appended
ExportOf(appended) ==
    journal_log.op = "export" =>
       LET e == journal_log.export[1] IN
       /\ e.header \in FieldOrders
       /\ e.n = Len(appended)
       /\ e.rows = [i \in 1..Len(appended) |-> csv_row(appended[i], e.header)]

\* C27: after any appends iter_records yields exactly the appended records in append
\* order; export_csv writes the header it was given and one row per appended record
\* and returns their number; every append makes the file longer and leaves the
\* earlier lines as they were
C27_RoundTrip ==
    /\ iter_records(ndjson) = journal_log.appended
    /\ ExportOf(journal_log.appended)
    /\ journal_log.op = "append" => GrownFrom(journal_log.before, ndjson)

\* what holds with a write that raises: the file only ever grows at its end, what is
\* read back and exported are the records whose line was written whole, in order
C27_ReadsWhatWasWritten ==
    /\ ExportOf(iter_records(ndjson))
    /\ journal_log.op = "append" =>
         \/ ndjson = journal_log.before
         \/ GrownFrom(journal_log.before, ndjson)
    /\ Len(iter_records(ndjson)) <= Len(journal_log.appended)

\* three appends, one of which raised and wrote nothing, and an export of two rows
C27_LostRecord ==
    /\ Len(journal_log.appended) = 3
    /\ Len(ndjson) = 2
    /\ journal_log.op = "export"
    /\ journal_log.export[1].n = 2

\* C21: a sample on which the detector or the calculator raised went on to the
\* journal, the republish queue and the DB buffer with no outliers, and on the
\* samples after it that carry numbers only neither raises
FailedAt(i) == normalized[i].detector_raised \/ normalized[i].calculator_raised

\* the callback has taken sample i as far as its DB buffer
Proceeded(i) ==
    /\ i \in Range(journal)
    /\ IF ing.sample = i
       THEN ing.pc = "buffer" => message_queue[Len(message_queue)] = i
       ELSE i \in Range(buffered)

C21_FailuresIsolated ==
    \A i \in 1..Len(normalized) :
        FailedAt(i) =>
           /\ Proceeded(i)
           /\ normalized[i].outliers = << >>
           /\ \A j \in (i + 1)..Len(normalized) :
                  normalized[j].text = {} => ~FailedAt(j)

\* what holds of C21: every sample proceeds, a sample on which the detector raised
\* has no outliers, and the calculator raises on no sample of numbers
C21_Caught ==
    \A i \in 1..Len(normalized) :
        /\ Proceeded(i)
        /\ normalized[i].detector_raised => normalized[i].outliers = << >>
        /\ normalized[i].text = {} => ~normalized[i].calculator_raised

\* the calculator raised on a sample that keeps the outliers the detector found
C21_OutliersKept ==
    \E i \in 1..Len(normalized) :
        /\ normalized[i].calculator_raised
        /\ ~normalized[i].detector_raised
        /\ normalized[i].outliers # << >>
        /\ i \in Range(buffered)

\* after a sample whose energy_j is a string, the detector raises on a sample of
\* numbers whose voltage is out of range, and the sample has no outliers
C21_DetectorPoisoned ==
    /\ Len(normalized) = 3
    /\ normalized[1].text = {"energy_j"} /\ ~FailedAt(1)
    /\ \A j \in 2..3 : /\ normalized[j].text = {}
                        /\ normalized[j].voltage_v = 80
                        /\ normalized[j].detector_raised
                        /\ normalized[j].outliers = << >>
    /\ 3 \in Range(buffered)

\* C28: on every sample leaving the normalizer throttle_pct = 100 * throttle and
\* brake_pct = 100 * brake within 0.01 (10 of the units of 0.001 %), whatever the
\* input carried
Agree(pct, unit) == Abs(pct - unit) <= 10

C28_DriverInputsAgree ==
    \A i \in 1..Len(normalized) :
        /\ Agree(normalized[i].throttle_pct, normalized[i].throttle)
        /\ Agree(normalized[i].brake_pct, normalized[i].brake)

\* what holds of C28: a pair that is zero or missing stays zero; a percentage
\* filled from a 0..1 form within the legal range agrees with it; a 0..1 form filled
\* from a percentage within the legal range agrees with it if the percentage is a
\* multiple of 0.1 %; a pair of which neither is zero leaves as it came
PairHolds(s, pct, unit) ==
    LET p == s.fed[pct]
        u == s.fed[unit] IN
    /\ p = 0 /\ u = 0 => s[pct] = 0 /\ s[unit] = 0
    /\ p = 0 /\ u \in 1..FULL => s[unit] = u /\ Agree(s[pct], s[unit])
    /\ u = 0 /\ p \in 1..FULL /\ p % UNIT_STEP = 0 => s[pct] = p /\ Agree(s[pct], s[unit])
    /\ p # 0 /\ u # 0 => s[pct] = p /\ s[unit] = u

C28_FilledFromOther ==
    \A i \in 1..Len(normalized) :
        /\ PairHolds(normalized[i], "throttle_pct", "throttle")
        /\ PairHolds(normalized[i], "brake_pct", "brake")

\* a 0..1 form of 0.33337 with no percentage leaves with 33.34 %
C28_Filled ==
    \E i \in 1..Len(normalized) :
        /\ normalized[i].fed["brake_pct"] = 0
        /\ normalized[i].brake = 33337 /\ normalized[i].brake_pct = 33340

\* a percentage of 33.337 with no 0..1 form leaves with the 0..1 form 0.333
C28_Rounded ==
    \E i \in 1..Len(normalized) :
        /\ normalized[i].fed["throttle"] = 0
        /\ normalized[i].throttle_pct = 33337 /\ normalized[i].throttle = 33300

\* an input of 50 % and 0.9 leaves as it came
C28_Inconsistent ==
    \E i \in 1..Len(normalized) :
        normalized[i].brake_pct = 50000 /\ normalized[i].brake = 90000

\* a 0..1 form of 1.5 with no percentage leaves with 100 % and 1.5
C28_OutOfRange ==
    \E i \in 1..Len(normalized) :
        /\ normalized[i].fed["throttle_pct"] = 0
        /\ normalized[i].throttle_pct = FULL /\ normalized[i].throttle = 150000

----------------------------------------------------------------------------
(* The publisher's messages, the passes of the republish task and of the DB writer,
   staleness, GPS deltas and the order of delivery *)

NoDuplicates(seq) == \A i, j \in 1..Len(seq) : seq[i] = seq[j] => i = j

\* C31: every message submitted to the publisher is delivered to the sink once, or
\* is once in the overflow queue, or is counted in messages_dropped: submitted =
\* delivered + queue depth + messages_dropped; a drain that returns after a failed
\* send has put the message back
C31_Conservation ==
    /\ NoDuplicates(sink \o rate_limiter.queue)
    /\ Range(sink \o rate_limiter.queue) \subseteq 1..(next_msg - 1)
    /\ next_msg - 1 = Len(sink) + Len(rate_limiter.queue)
                        + rate_limiter.stats.messages_dropped
    /\ rate_limiter.stats.queue_depth = Len(rate_limiter.queue)
    /\ rate_limiter.stats.messages_published = Len(sink)

\* a drain has stopped at a failed send with its message back in the queue, after
\* one message was delivered and one was dropped at a full queue
C31_Witness ==
    /\ last.op = "drain_queue"
    /\ drain.pc = "idle"
    /\ rate_limiter.queue # << >>
    /\ sink # << >>
    /\ rate_limiter.stats.messages_dropped > 0

\* C32: the writer resubmits the retry queue only when the clock has reached
\* next_retry_at, which is at least one backoff after the writer's last failed
\* submission, and only between its sleep and the lock of its fresh snapshot
C32_RetryWhenDue ==
    [][/\ (wr'.pc = "retry_write" /\ wr.pc # "retry_write") =>
             /\ wr.pc = "sleep"
             /\ wr'.batches = db_retry_queue /\ db_retry_queue # << >>
             /\ now_mono' >= wr.next_retry_at
             /\ wr.failed_at # << >>
             /\ wr.next_retry_at >= wr.failed_at[1] + db_retry_backoff
       /\ (wr.pc = "retry_write" /\ wr'.pc # "retry_write") =>
             wr'.pc \in {"flush_lock", "exit"}
       /\ (wr'.copy # wr.copy /\ wr'.copy # << >>) => wr.pc = "flush_copy"
       /\ (wr'.pc = "flush_copy" /\ wr.pc # "flush_copy") => wr.pc = "flush_lock"]_vars

\* a retry round is under way while new samples wait for the snapshot of the cycle
C32_Witness ==
    /\ wr.pc = "retry_write"
    /\ wr.batches # << >>
    /\ db_buffer # << >>
    /\ now_mono >= wr.next_retry_at

\* a cycle that found batches waiting before their deadline goes on to its snapshot
C32_NotYetDue ==
    /\ wr.pc = "flush_lock"
    /\ db_retry_queue # << >>
    /\ now_mono < wr.next_retry_at

\* the writer wakes with batches in the retry queue whose backoff has elapsed since
\* their last submission, write and scheduling delays included
BackoffElapsed ==
    /\ wr.pc = "sleep"
    /\ wr'.pc \in {"retry_write", "flush_lock"}
    /\ db_retry_queue # << >>
    /\ wr.waiting_since # << >>
    /\ now_mono' >= wr.waiting_since[1] + db_retry_backoff + 2 * MaxDelay

\* C33: while the bridge runs, a batch of the retry queue is resubmitted once its
\* backoff has elapsed, also in an outage in which every cycle's fresh flush fails
C33_RetryLiveness ==
    [][BackoffElapsed => wr'.pc = "retry_write"]_vars

\* three cycles in a row failed their fresh flush and the first batch still waits
C33_Starved ==
    /\ wr.pc = "sleep"
    /\ Len(db_retry_queue) >= 3
    /\ wr.waiting_since # << >>
    /\ now_mono >= wr.waiting_since[1] + 2 * DB_BATCH_INTERVAL
    /\ database = {}

----------------------------------------------------------------------------
(* The republish task with the health monitor beside it: a mock source, the sink's
   link free to drop, the health monitor marking it, the reconnects of the sink.  In
   mock mode the source is never reconnected, so the reconnect lock is always free
   when the republish task asks for it. *)

\* samples the mock source delivers in such a run
PassSamples == 2
\* the clock of such a run stops here (seconds)
PassMono == 3

PassInit ==
    /\ PublisherStart
    /\ BridgeStart(TRUE, TRUE, [samples |-> PassSamples, time |-> 0, mono |-> PassMono,
                                faults |-> 0, rejects |-> 0, epoch |-> 0])

PassNext ==
    \/ MonoTick
    \/ LinkDrop
    \/ MockTick
    \/ HealthWake
    \/ RepublishWake
    \/ RepublishReconnect
    \/ DrainIter
    \/ RepublishTake
    \/ RepublishPublish
    \/ RepublishSleep

SpecPass == PassInit /\ [][PassNext]_vars

\* the republish task takes its batch from the republish queue
Taken == rp.pc = "drain" /\ rp'.pc = "publish" /\ rp'.batch # << >>

\* drain_queue() takes a message from the overflow queue
Popped == drain.pc = "loop" /\ sink_calls' # sink_calls

\* a step of the republish task that changes one of the two queues
QueueStep ==
    /\ rp' # rp \/ drain' # drain
    /\ message_queue' # message_queue \/ rate_limiter'.queue # rate_limiter.queue

\* C34 as stated: a batch is taken only after the drain of the pass has returned, at
\* most REPUBLISH_BATCH messages at once, and nothing is taken from either queue
\* while the sink is marked disconnected (here: once the drain has awaited a send)
C34_PassStructure ==
    [][/\ Taken => drain.pc = "idle" /\ Len(rp'.batch) <= REPUBLISH_BATCH
       /\ (drain.drained > 0 /\ (Taken \/ Popped)) => dashboard_health.is_connected]_vars

\* C34, amended: a pass reaches its drain only past a connection check that found
\* the sink marked connected (at once or after its own reconnect), takes its batch
\* only after the drain has returned, at most REPUBLISH_BATCH messages; a pass that
\* finds the sink marked disconnected and does not reconnect it, the cap exhausted
\* or not, leaves both queues as they are
C34_PassChecked ==
    [][/\ (rp'.pc = "drain" /\ rp.pc # "drain") =>
             \/ rp.pc = "sleep" /\ dashboard_health.is_connected
             \/ rp.pc = "rc_sleep" /\ dashboard_health'.is_connected
       /\ Taken => /\ drain.pc = "idle"
                   /\ Len(rp'.batch) <= REPUBLISH_BATCH
                   /\ message_queue = rp'.batch \o message_queue'
       /\ QueueStep => rp.pc \in {"drain", "publish"}
       /\ (rp' # rp /\ rp.pc = "sleep" /\ ~dashboard_health.is_connected) =>
             /\ rp'.pc \in {"rc_sleep", "sleep", "exit"}
             /\ dashboard_health.reconnect_attempts >= RECONNECT_MAX_ATTEMPTS
                  => rp'.pc \in {"sleep", "exit"}]_vars

\* the cap is exhausted, the sink is marked disconnected and both queues hold a
\* message; a pass has just ended without touching them
C34_Witness ==
    /\ rp.pc = "sleep"
    /\ ~dashboard_health.is_connected
    /\ dashboard_health.reconnect_attempts >= RECONNECT_MAX_ATTEMPTS
    /\ conn_log.calls["dashboard"] = 0
    /\ conn_log.delays["dashboard"] # << >>
    /\ message_queue # << >>
    /\ rate_limiter.queue # << >>

\* a message of the source was recorded and the silence since is longer than timeout
Silent(log, t, timeout) == log.heard_at # << >> /\ t - log.heard_at[1] > timeout

\* a pass of health_monitor calls _reconnect_esp32: the call waits for the lock,
\* sleeps its delay, or returns at once at the cap
SourceReconnectCalled ==
    /\ hm.pc = "sleep"
    /\ \/ hm'.pc \in {"rc_lock", "rc_sleep"}
       \/ conn_log'.calls.esp32 # conn_log.calls.esp32

\* C35: the source's health record is stale exactly when a message was recorded and
\* the silence since is longer than the timeout; the health monitor calls the
\* source reconnect only in live mode and only after a first message
C35_StaleAfterMessage ==
    [][/\ is_stale(esp32_health, now_mono, WATCHDOG_TIMEOUT)
             <=> Silent(conn_log, now_mono, WATCHDOG_TIMEOUT)
       /\ is_stale(esp32_health', now_mono', WATCHDOG_TIMEOUT)
             <=> Silent(conn_log', now_mono', WATCHDOG_TIMEOUT)
       /\ SourceReconnectCalled =>
             /\ ~mock_mode
             /\ Silent(conn_log, now_mono, WATCHDOG_TIMEOUT)]_vars

\* a live source that has never sent: the health monitor has run several times, long
\* after the timeout, and no reconnect of the source was ever called
C35_Witness ==
    /\ ~mock_mode
    /\ conn_log.heard_at = << >>
    /\ now_mono > Epoch + WATCHDOG_TIMEOUT + 2 * HEALTH_CHECK_INTERVAL
    /\ hm.wake_at > Epoch + 3 * HEALTH_CHECK_INTERVAL
    /\ conn_log.calls.esp32 = 0
    /\ conn_log.delays.esp32 = << >>
    /\ esp32_health.reconnect_attempts = 0

\* the watchdog has fired: a message, then silence, then the reconnect of the source
C35_Stale ==
    /\ hm.pc = "rc_sleep"
    /\ is_stale(esp32_health, now_mono, WATCHDOG_TIMEOUT)

\* a mock run in which the health monitor has run long after the timeout
C35_Mock ==
    /\ mock_mode
    /\ buffered # << >>
    /\ now_mono > Epoch + WATCHDOG_TIMEOUT + 2 * HEALTH_CHECK_INTERVAL
    /\ hm.wake_at > Epoch + 3 * HEALTH_CHECK_INTERVAL

----------------------------------------------------------------------------
(* The detector fed with samples that carry a GPS point: small and large steps of
   latitude and of altitude, at rest and moving *)

GpsFeed ==
    {[latitude |-> la, longitude |-> 0, altitude |-> al, speed_ms |-> sp] :
       la \in {0, 1}, al \in {0, 60}, sp \in {0, 1}}
GpsDetects == 4

GpsInit ==
    /\ PublisherStart
    /\ BridgeStart(FALSE, TRUE,
                   [ModuleBounds EXCEPT !.detects = GpsDetects, !.feed = GpsFeed])

GpsNext == DetectLocated

SpecGps == GpsInit /\ [][GpsNext]_vars

\* the GPS point a sample carries
PointOf(data) ==
    [latitude |-> data.latitude, longitude |-> data.longitude, altitude |-> data.altitude]

\* the reason detect() gave for a field, "" if it did not flag it
ReasonOf(out, field) ==
    IF out # << >> /\ field \in out[1].flagged_fields THEN out[1].reasons[field] ELSE ""

\* C36: the movement checks of sample n >= 2 compare it with the point of sample
\* n-1 (so an altitude step of more than ALTITUDE_RATE_MAX from one sample to the
\* next is flagged altitude_rate), and only the first GPS sample is not checked
C36_PerSampleDelta ==
    \A n \in 1..Len(detected) :
        /\ n = 1 => detected[n].prev = << >>
        /\ n >= 2 =>
             /\ detected[n].prev = <<PointOf(detected[n - 1].data)>>
             /\ ReasonOf(detected[n].out, "altitude") = "altitude_rate"
                  <=> Abs(detected[n].data.altitude - detected[n - 1].data.altitude)
                         > ALTITUDE_RATE_MAX

\* what the code does: sample n is compared with the point of sample n-2, and the
\* first two GPS samples are not checked
C36_TwoBack ==
    \A n \in 1..Len(detected) :
        /\ n <= 2 => detected[n].prev = << >>
        /\ n >= 3 =>
             /\ detected[n].prev = <<PointOf(detected[n - 2].data)>>
             /\ ReasonOf(detected[n].out, "altitude") = "altitude_rate"
                  <=> Abs(detected[n].data.altitude - detected[n - 2].data.altitude)
                         > ALTITUDE_RATE_MAX

\* the track has wrapped, and the last sample was flagged for its altitude step and
\* for its step of latitude
C36_Checked ==
    /\ Len(detected) > GPS_TRACK_SIZE
    /\ ReasonOf(detected[Len(detected)].out, "altitude") = "altitude_rate"
    /\ ReasonOf(detected[Len(detected)].out, "latitude")
         \in {"gps_speed_mismatch", "impossible_speed"}

\* C37: the sink receives the messages in the order in which ingest put them on the
\* republish queue (the samples are numbered in that order)
C37_OrderKept ==
    \A i \in 1..Len(sink) : \A j \in 1..Len(sink) : i < j => sink[i] < sink[j]

\* a message that waited in the overflow queue was delivered after an earlier one
C37_Drained ==
    /\ Len(sink) >= 2
    /\ rate_limiter.stats.drain_cycles > 0
    /\ C37_OrderKept

\* C38: between the passes of the republish task and the calls of the ingest
\* callback, stats.messages_republished is the number of messages delivered to the
\* sink, and it does not exceed stats.messages_received
C38_RepublishedIsDelivered ==
    (rp.pc = "sleep" /\ ing.pc = "idle") =>
        /\ stats.messages_republished = Len(sink)
        /\ stats.messages_republished <= stats.messages_received

\* what the counter is: the calls of publish() that returned True, delivered or only
\* queued, plus what the drains delivered
C38_CountsQueuedToo ==
    (rp.pc = "sleep" /\ ing.pc = "idle") =>
        /\ stats.messages_republished >= Len(sink)
        /\ stats.messages_republished
             <= Len(sink) + rate_limiter.stats.messages_delayed

\* one message, received once, queued and later drained: counted twice
C38_CountedTwice ==
    /\ rp.pc = "sleep" /\ ing.pc = "idle"
    /\ stats.messages_received = 1
    /\ sink = <<1>>
    /\ stats.messages_republished = 2

\* C39: whatever the republish task does in between, the callback leaves its sample
\* on the republish queue, and when it had to make room it discarded the oldest
\* message and counted it
C39_EverySampleEnqueued ==
    [][/\ (ing.pc = "put" /\ ing'.pc = "buffer") =>
             message_queue' = Append(message_queue, ing.sample)
       /\ (ing.pc = "drop" /\ ing'.pc = "buffer") =>
             /\ message_queue # << >>
             /\ message_queue' = Append(Tail(message_queue), ing.sample)
             /\ stats'.messages_dropped = stats.messages_dropped + 1]_vars

\* the callback found the queue full, the republish task then took everything, and
\* the callback went on without its sample on the queue and without a count
C39_Skipped ==
    /\ ing.pc = "buffer"
    /\ message_queue = << >>
    /\ Len(rp.batch) = MAX_QUEUE_SIZE
    /\ stats.messages_dropped = 0

\* how long the source has been silent at time t: since its last counted message,
\* or since the bridge started
Silence(t) == IF conn_log.heard_at = << >> THEN t - Epoch ELSE t - conn_log.heard_at[1]

\* a pass of the health monitor in live mode that finds the source marked
\* disconnected, the reconnect cap not reached and the bridge running
MarkedPass ==
    /\ hm.pc = "sleep" /\ hm' # hm
    /\ ~mock_mode
    /\ loop_head = "sleep"
    /\ ~esp32_health.is_connected
    /\ ~link.esp32
    /\ esp32_health.reconnect_attempts < RECONNECT_MAX_ATTEMPTS

\* C40: once the health monitor has marked the source disconnected, a pass that
\* finds it still marked after more than WATCHDOG_TIMEOUT of silence calls the
\* source reconnect, whether or not a message was ever received
C40_ReconnectAttempted ==
    [][(MarkedPass /\ Silence(now_mono) > WATCHDOG_TIMEOUT) => SourceReconnectCalled]_vars

\* the same for a source that has sent at least one message
C40_AfterFirstMessage ==
    [][(MarkedPass /\ conn_log.heard_at # << >> /\ Silence(now_mono) > WATCHDOG_TIMEOUT)
          => SourceReconnectCalled]_vars

\* a source that never sent, its link down and marked by the health monitor, which
\* has passed again and again without a reconnect
C40_NeverReconnected ==
    /\ ~mock_mode
    /\ conn_log.heard_at = << >>
    /\ ~link.esp32
    /\ ~esp32_health.is_connected
    /\ hm.pc = "sleep"
    /\ now_mono = MaxConnMono
    /\ hm.wake_at > MaxConnMono
    /\ conn_log.delays.esp32 = << >>
    /\ conn_log.calls.esp32 = 0

====
